---- MODULE Spec2Model ----
(***************************************************************************)
(* CodeCanvas AI: the generation session of src/app/page.tsx               *)
(* (handleSendMessage), the submit form of the chat interface and the code *)
(* handed to the live preview.                                             *)
(*                                                                         *)
(* Text (a JavaScript string) is a sequence of one-character strings, so   *)
(* that startsWith, substring, trim and replace work on characters.        *)
(*                                                                         *)
(* A handler runs to completion between two awaits: one action is the code *)
(* from an event or a resumed await up to the next await or the return.    *)
(* State setters called with an updater (setMessages, setFiles) are        *)
(* applied in call order, so the state variables hold the value React      *)
(* holds once the queued updaters have run.  What a handler READS from     *)
(* its closure (isGenerating) is the value of the latest render:           *)
(* renderedIsGenerating.  React renders the updates of a discrete event    *)
(* (submit) before it dispatches the next event; updates made after an     *)
(* await are rendered by a later step, Render.                             *)
(*                                                                         *)
(* Message timestamps (new Date()) are not modelled; uuidv4() is a fresh   *)
(* number.                                                                 *)
(***************************************************************************)
EXTENDS Integers, Sequences, FiniteSets, TLC

\* ------------------------------------------------------------- bounds
\* User events that change something: accepted submissions, submissions with
\* nothing to send, changes of the framework selector and edits in the code
\* editor, together.
MaxEvents == 2
\* Frames the transport delivers, over all streams together.
MaxFrames == 2

\* Frames of one stream whose text is cut at any place.
MaxPieces == 2

\* The elements of one iframe document.
MaxElements == 2

\* Requests to the auth routes.
MaxRequests == 3

\* Sessions created, that is values of randomBytes(32) drawn.
MaxTokens == 2

\* The clock, in weeks.
MaxTime == 2

\* Sign-up requests the server works on at the same time.
MaxRacers == 2

\* The sign-up requests.
Racers == 1..MaxRacers

\* The calls of handleSendMessage that pass its guard, in call order.
Sessions == 1..MaxEvents

\* ------------------------------------------------------------- text
startsWith(s, p) ==
    Len(s) >= Len(p) /\ SubSeq(s, 1, Len(p)) = p

\* String.prototype.substring(n): the characters from index n (0-based) on.
substring(s, n) ==
    IF n >= Len(s) THEN <<>> ELSE SubSeq(s, n + 1, Len(s))

IsPrefix(p, s) ==
    Len(p) <= Len(s) /\ SubSeq(s, 1, Len(p)) = p

IsWhitespace(c) ==
    c \in {" ", "\n", "\t", "\r"}

RECURSIVE trimStart(_)
trimStart(s) ==
    IF s # <<>> /\ IsWhitespace(Head(s)) THEN trimStart(Tail(s)) ELSE s

RECURSIVE trimEnd(_)
trimEnd(s) ==
    IF s # <<>> /\ IsWhitespace(s[Len(s)])
    THEN trimEnd(SubSeq(s, 1, Len(s) - 1))
    ELSE s

\* String.prototype.trim()
trim(s) ==
    trimEnd(trimStart(s))

\* ------------------------------------------------------------- literals
CHAT_MARKER ==
    <<"C", "H", "A", "T", ":">>

CODE_MARKER ==
    <<"C", "O", "D", "E", ":">>

\* chunk.substring(5): the length of either marker.
MarkerLength == 5

INITIAL_CODE ==
    <<"\n", "<", "d", "i", "v", " ", "c", "l", "a", "s", "s", "=",
      "\"", "f", "l", "e", "x", " ", "i", "t", "e", "m", "s", "-",
      "c", "e", "n", "t", "e", "r", " ", "j", "u", "s", "t", "i",
      "f", "y", "-", "c", "e", "n", "t", "e", "r", " ", "h", "-",
      "f", "u", "l", "l", " ", "m", "i", "n", "-", "h", "-", "[",
      "4", "0", "0", "p", "x", "]", " ", "b", "g", "-", "g", "r",
      "a", "y", "-", "5", "0", " ", "d", "a", "r", "k", ":", "b",
      "g", "-", "[", "v", "a", "r", "(", "-", "-", "c", "o", "l",
      "o", "r", "-", "p", "a", "n", "e", "l", "-", "p", "r", "e",
      "v", "i", "e", "w", ")", "]", "\"", ">", "\n", " ", " ", "<",
      "d", "i", "v", " ", "c", "l", "a", "s", "s", "=", "\"", "t",
      "e", "x", "t", "-", "c", "e", "n", "t", "e", "r", " ", "p",
      "-", "8", " ", "b", "g", "-", "w", "h", "i", "t", "e", " ",
      "d", "a", "r", "k", ":", "b", "g", "-", "g", "r", "a", "y",
      "-", "8", "0", "0", " ", "r", "o", "u", "n", "d", "e", "d",
      "-", "l", "g", " ", "s", "h", "a", "d", "o", "w", "-", "l",
      "g", "\"", ">", "\n", " ", " ", " ", " ", "<", "h", "1", " ",
      "c", "l", "a", "s", "s", "=", "\"", "t", "e", "x", "t", "-",
      "2", "x", "l", " ", "f", "o", "n", "t", "-", "b", "o", "l",
      "d", " ", "t", "e", "x", "t", "-", "i", "n", "d", "i", "g",
      "o", "-", "6", "0", "0", " ", "d", "a", "r", "k", ":", "t",
      "e", "x", "t", "-", "i", "n", "d", "i", "g", "o", "-", "4",
      "0", "0", "\"", ">", "C", "o", "d", "e", "C", "a", "n", "v",
      "a", "s", " ", "A", "I", " ", "R", "e", "a", "d", "y", "<",
      "/", "h", "1", ">", "\n", " ", " ", " ", " ", "<", "p", " ",
      "c", "l", "a", "s", "s", "=", "\"", "m", "t", "-", "2", " ",
      "t", "e", "x", "t", "-", "g", "r", "a", "y", "-", "7", "0",
      "0", " ", "d", "a", "r", "k", ":", "t", "e", "x", "t", "-",
      "g", "r", "a", "y", "-", "3", "0", "0", "\"", ">", "S", "t",
      "a", "r", "t", " ", "b", "y", " ", "t", "y", "p", "i", "n",
      "g", " ", "a", " ", "r", "e", "q", "u", "e", "s", "t", " ",
      "i", "n", " ", "t", "h", "e", " ", "c", "h", "a", "t", " ",
      "p", "a", "n", "e", "l", " ", "o", "r", " ", "u", "p", "l",
      "o", "a", "d", "i", "n", "g", " ", "a", "n", " ", "i", "m",
      "a", "g", "e", ".", "<", "/", "p", ">", "\n", " ", " ", "<",
      "/", "d", "i", "v", ">", "\n", "<", "/", "d", "i", "v", ">",
      "\n">>

GREETING ==
    <<"H", "e", "l", "l", "o", "!", " ", "I", "'", "m", " ", "C",
      "o", "d", "e", "C", "a", "n", "v", "a", "s", " ", "A", "I",
      ".", " ", "D", "e", "s", "c", "r", "i", "b", "e", " ", "t",
      "h", "e", " ", "c", "o", "m", "p", "o", "n", "e", "n", "t",
      " ", "y", "o", "u", " ", "w", "a", "n", "t", " ", "t", "o",
      " ", "b", "u", "i", "l", "d", ",", " ", "o", "r", " ", "j",
      "u", "s", "t", " ", "s", "a", "y", " ", "h", "i", "!">>

PLACEHOLDER ==
    <<".", ".", ".">>

ERROR_CONTENT ==
    <<"E", "r", "r", "o", "r", ":", " ", "C", "o", "u", "l", "d",
      " ", "n", "o", "t", " ", "g", "e", "n", "e", "r", "a", "t",
      "e", " ", "a", " ", "r", "e", "s", "p", "o", "n", "s", "e",
      ".">>

\* The value of a message's optional code field when it was never set.
UNDEFINED == <<"undefined">>

Frameworks == {"html", "react", "vue", "nextjs"}

\* selectedFramework.toUpperCase()
toUpperCase(fw) ==
    CASE fw = "html" -> <<"H", "T", "M", "L">>
      [] fw = "react" -> <<"R", "E", "A", "C", "T">>
      [] fw = "vue" -> <<"V", "U", "E">>
      [] fw = "nextjs" -> <<"N", "E", "X", "T", "J", "S">>

\* `Generating ${selectedFramework.toUpperCase()} code...`
GeneratingContent(fw) ==
    <<"G", "e", "n", "e", "r", "a", "t", "i", "n", "g", " ">> \o toUpperCase(fw) \o <<" ", "c", "o", "d", "e", ".", ".", ".">>

\* `${selectedFramework.toUpperCase()} code generated successfully!`
GeneratedContent(fw) ==
    toUpperCase(fw) \o <<" ", "c", "o", "d", "e", " ", "g", "e", "n", "e", "r", "a",
      "t", "e", "d", " ", "s", "u", "c", "c", "e", "s", "s", "f",
      "u", "l", "l", "y", "!">>

\* The toasts, by their text.
ToastComplete(fw) ==
    CASE fw = "html" -> "HTML code generation complete!"
      [] fw = "react" -> "REACT code generation complete!"
      [] fw = "vue" -> "VUE code generation complete!"
      [] fw = "nextjs" -> "NEXTJS code generation complete!"

TOAST_ERROR == "An error occurred during AI generation."

TOAST_IMAGE == "Failed to read image file."

TOAST_EMPTY == "Please enter a prompt or upload an image."

CompleteToasts == {ToastComplete(fw) : fw \in Frameworks}

ToastTexts == CompleteToasts \union {TOAST_ERROR, TOAST_IMAGE, TOAST_EMPTY}

\* toast.success(text), toast.error(text)
toast(shown, text) ==
    [shown EXCEPT ![text] = @ + 1]

\* ------------------------------------------------------------- inputs
\* The chunks of text the transport can deliver, as decoder.decode(value)
\* returns them: "CHAT:Hello there", "CODE:<p>a b" and "Hi x", a frame with
\* the chat marker, one with the code marker and one with neither.
F_CHAT ==
    <<"C", "H", "A", "T", ":", "H", "e", "l", "l", "o", " ", "t",
      "h", "e", "r", "e">>

F_CODE ==
    <<"C", "O", "D", "E", ":", "<", "p", ">", "a", " ", "b">>

F_PLAIN ==
    <<"H", "i", " ", "x">>

Frames == {F_CHAT, F_CODE, F_PLAIN}

\* The name of the uploaded image file, or NoImage (imageFile === null).
NoImage == <<"null">>

\* What the user submits: the text of the prompt input and the image.
Inputs ==
    {[prompt |-> <<" ">>, image |-> NoImage],
     [prompt |-> <<"h", "i">>, image |-> NoImage],
     [prompt |-> <<" ">>, image |-> <<"a", ".", "p", "n", "g">>]}

\* What the user types into the code editor.
EditTexts == {<<"<", "i", ">">>}

\* ------------------------------------------------------------- regex
\* The character classes and steps the regular expressions of
\* live-preview.tsx are made of.
LowerCase ==
    <<"a", "b", "c", "d", "e", "f", "g", "h", "i", "j", "k", "l", "m",
      "n", "o", "p", "q", "r", "s", "t", "u", "v", "w", "x", "y", "z">>

UpperCase ==
    <<"A", "B", "C", "D", "E", "F", "G", "H", "I", "J", "K", "L", "M",
      "N", "O", "P", "Q", "R", "S", "T", "U", "V", "W", "X", "Y", "Z">>

Digits ==
    {"0", "1", "2", "3", "4", "5", "6", "7", "8", "9"}

\* [a-z]
IsLowerCase(c) ==
    \E i \in 1..26 : LowerCase[i] = c

\* \w
IsWordChar(c) ==
    \/ \E i \in 1..26 : LowerCase[i] = c \/ UpperCase[i] = c
    \/ c \in Digits
    \/ c = "_"

\* . (every character but a line terminator)
IsLineTerminator(c) ==
    c \in {"\n", "\r"}

\* The character a case-insensitive match (the i flag) compares.
toLowerChar(c) ==
    IF \E i \in 1..26 : UpperCase[i] = c
    THEN LowerCase[CHOOSE i \in 1..26 : UpperCase[i] = c]
    ELSE c

\* g[1].toUpperCase()
toUpperChar(c) ==
    IF \E i \in 1..26 : LowerCase[i] = c
    THEN UpperCase[CHOOSE i \in 1..26 : LowerCase[i] = c]
    ELSE c

\* The literal lit stands in s at index i (1-based).
matchAt(s, i, lit) ==
    /\ i >= 1
    /\ i + Len(lit) - 1 <= Len(s)
    /\ SubSeq(s, i, i + Len(lit) - 1) = lit

\* matchAt under the i flag.
matchAtIgnoreCase(s, i, lit) ==
    /\ i >= 1
    /\ i + Len(lit) - 1 <= Len(s)
    /\ \A k \in 1..Len(lit) : toLowerChar(s[i + k - 1]) = toLowerChar(lit[k])

\* \s* from index i: the index after the run of whitespace.
RECURSIVE skipWhitespace(_, _)
skipWhitespace(s, i) ==
    IF i <= Len(s) /\ IsWhitespace(s[i]) THEN skipWhitespace(s, i + 1) ELSE i

\* \w* from index i: the index after the run of word characters.
RECURSIVE skipWord(_, _)
skipWord(s, i) ==
    IF i <= Len(s) /\ IsWordChar(s[i]) THEN skipWord(s, i + 1) ELSE i

\* \b before the word character at index i.
wordBoundary(s, i) ==
    i = 1 \/ ~IsWordChar(s[i - 1])

\* The least element of a non-empty set of indices.
Min(S) ==
    CHOOSE i \in S : \A j \in S : i <= j

\* The first index from i on where lit stands in s, or 0.
indexOf(s, lit, i) ==
    LET found == {j \in i..(Len(s) - Len(lit) + 1) : matchAt(s, j, lit)}
    IN  IF found = {} THEN 0 ELSE Min(found)

\* s from index i to its end.
from(s, i) ==
    IF i > Len(s) THEN <<>> ELSE SubSeq(s, i, Len(s))

\* String.prototype.replace with a g regular expression, from index i on:
\* ends[j] is the index after the match that starts at j, for every index j
\* where the expression matches, and replacements[j] what replaces it.  The
\* matches are taken from left to right and do not overlap.
RECURSIVE replaceMatches(_, _, _, _)
replaceMatches(s, i, ends, replacements) ==
    LET later == {j \in DOMAIN ends : j >= i}
    IN  IF later = {} THEN from(s, i)
        ELSE LET j == Min(later)
             IN  SubSeq(s, i, j - 1) \o replacements[j]
                 \o replaceMatches(s, ends[j], ends, replacements)

\* replaceMatches over the whole of s.  The arguments are bound as values
\* of one-element sets, so that each is computed once.
replaceAll(s, ends, replacements) ==
    CHOOSE r \in {replaceMatches(v, 1, e, p) :
                     v \in {s}, e \in {ends}, p \in {replacements}} : TRUE

\* ------------------------------------------------------------- ReactLivePreview
\* The character U+0060, which a TLA+ string cannot hold.
BACKTICK == "U+0060"

FENCE ==
    <<BACKTICK, BACKTICK, BACKTICK>>

\* The language tags of the leading fence, in the order of the alternation.
FenceLanguages ==
    <<<<"j", "s", "x">>,
      <<"j", "a", "v", "a", "s", "c", "r", "i", "p", "t">>,
      <<"t", "s", "x">>,
      <<"r", "e", "a", "c", "t">>>>

\* .replace(/^```(?:jsx|javascript|tsx|react)?\s*/i, '')
removeLeadingFence(code) ==
    IF ~matchAt(code, 1, FENCE) THEN code
    ELSE LET tagged == {k \in 1..Len(FenceLanguages) :
                           matchAtIgnoreCase(code, 4, FenceLanguages[k])}
             afterTag ==
                 IF tagged = {} THEN 4
                 ELSE 4 + Len(FenceLanguages[CHOOSE k \in tagged :
                                               \A j \in tagged : k <= j])
         IN  from(code, skipWhitespace(code, afterTag))

\* The leftmost index where ``` followed by whitespace only up to the end
\* stands, or 0.
trailingFenceIndex(s) ==
    LET found == {i \in 1..Len(s) :
                     matchAt(s, i, FENCE) /\ skipWhitespace(s, i + 3) > Len(s)}
    IN  IF found = {} THEN 0 ELSE Min(found)

\* removeTrailingFence that removes nothing.
keepTrailingFence(s) ==
    s

\* .replace(/```\s*$/i, '')
removeTrailingFence(s) ==
    LET i == trailingFenceIndex(s)
    IN  IF i = 0 THEN s ELSE SubSeq(s, 1, i - 1)

\* The keywords of /^(const|function|class)\s+\w+/.
DeclarationKeywords ==
    {<<"c", "o", "n", "s", "t">>,
     <<"f", "u", "n", "c", "t", "i", "o", "n">>,
     <<"c", "l", "a", "s", "s">>}

\* keyword \s+ \w+ at the start of s, the keyword being kw.
declarationAt(s, kw) ==
    LET ws == Len(kw) + 1
        name == skipWhitespace(s, ws)
    IN  /\ name > ws
        /\ skipWord(s, name) > name

\* /^(const|function|class)\s+\w+/i.test(processedCode)
isCompleteComponent(s) ==
    \E kw \in DeclarationKeywords :
        matchAtIgnoreCase(s, 1, kw) /\ declarationAt(s, kw)

\* processedCode.match(/^(?:const|function|class)\s+(\w+)/): it matches.
hasComponentMatch(s) ==
    \E kw \in DeclarationKeywords : matchAt(s, 1, kw) /\ declarationAt(s, kw)

\* componentMatch[1]
componentName(s) ==
    LET kw == CHOOSE k \in DeclarationKeywords :
                  matchAt(s, 1, k) /\ declarationAt(s, k)
        name == skipWhitespace(s, Len(kw) + 1)
    IN  SubSeq(s, name, skipWord(s, name) - 1)

\* (.*?) of /<!--\s*(.*?)\s*-->/ begun at p: the least q >= p with \s*-->
\* standing at q and no line terminator in between, or 0.
RECURSIVE htmlCommentEnd(_, _)
htmlCommentEnd(s, q) ==
    IF matchAt(s, skipWhitespace(s, q), <<"-", "-", ">">>) THEN q
    ELSE IF q > Len(s) \/ IsLineTerminator(s[q]) THEN 0
    ELSE htmlCommentEnd(s, q + 1)

\* .replace(/<!--\s*(.*?)\s*-->/g, '{/* $1 */}')
htmlCommentsToJsx(s) ==
    LET body(j) == skipWhitespace(s, j + 4)
        matches == {j \in 1..Len(s) :
                       /\ matchAt(s, j, <<"<", "!", "-", "-">>)
                       /\ htmlCommentEnd(s, body(j)) # 0}
        ends == [j \in matches |->
                    skipWhitespace(s, htmlCommentEnd(s, body(j))) + 3]
        replacements ==
            [j \in matches |->
                <<"{", "/", "*", " ">>
                \o SubSeq(s, body(j), htmlCommentEnd(s, body(j)) - 1)
                \o <<" ", "*", "/", "}">>]
    IN  replaceAll(s, ends, replacements)

\* .replace(/\b<word>/g, replacement) for the literals class= and for=
replaceWord(s, word, replacement) ==
    LET matches == {j \in 1..Len(s) :
                       matchAt(s, j, word) /\ wordBoundary(s, j)}
    IN  replaceAll(s, [j \in matches |-> j + Len(word)],
                       [j \in matches |-> replacement])

\* String.prototype.split(separator), separator one character
RECURSIVE split(_, _)
split(s, separator) ==
    LET i == indexOf(s, <<separator>>, 1)
    IN  IF i = 0 THEN <<s>>
        ELSE <<SubSeq(s, 1, i - 1)>> \o split(from(s, i + 1), separator)

\* Array.prototype.join(separator)
RECURSIVE join(_, _)
join(parts, separator) ==
    IF parts = <<>> THEN <<>>
    ELSE IF Len(parts) = 1 THEN parts[1]
    ELSE parts[1] \o separator \o join(Tail(parts), separator)

\* key.replace(/-([a-z])/g, g => g[1].toUpperCase())
camelKey(key) ==
    LET matches == {j \in 1..(Len(key) - 1) :
                       key[j] = "-" /\ IsLowerCase(key[j + 1])}
    IN  replaceAll(key, [j \in matches |-> j + 2],
                       [j \in matches |-> <<toUpperChar(key[j + 1])>>])

\* The map callback of the style conversion: one declaration "key: value"
\* becomes "camelKey: 'value'"; '' without a key or without a value.
styleDeclaration(s) ==
    LET parts == split(s, ":")
        key == trim(parts[1])
        value == IF Len(parts) >= 2 THEN trim(parts[2]) ELSE <<>>
    IN  IF key = <<>> \/ value = <<>> THEN <<>>
        ELSE camelKey(key) \o <<":", " ", "'">> \o value \o <<"'">>

\* styleObj without .filter(Boolean): the '' of a skipped declaration is
\* joined with the others.
styleObjUnfiltered(styles) ==
    LET declared == SelectSeq(split(styles, ";"), LAMBDA d : trim(d) # <<>>)
        mapped == [k \in DOMAIN declared |-> styleDeclaration(declared[k])]
    IN  join(mapped, <<",", " ">>)

\* styles.split(';').filter(s => s.trim()).map(...).filter(Boolean)
\*       .join(', ')
styleObj(styles) ==
    LET declared == SelectSeq(split(styles, ";"), LAMBDA d : trim(d) # <<>>)
        mapped == [k \in DOMAIN declared |-> styleDeclaration(declared[k])]
    IN  join(SelectSeq(mapped, LAMBDA d : d # <<>>), <<",", " ">>)

STYLE_OPEN ==
    <<"s", "t", "y", "l", "e", "=", "\"">>

\* .replace(/\bstyle="([^"]*)"/g, (match, styles) => `style={{${styleObj}}}`)
styleToObject(s) ==
    LET close(j) == indexOf(s, <<"\"">>, j + 7)
        matches == {j \in 1..Len(s) :
                       /\ matchAt(s, j, STYLE_OPEN)
                       /\ wordBoundary(s, j)
                       /\ close(j) # 0}
        replacements ==
            [j \in matches |->
                <<"s", "t", "y", "l", "e", "=", "{", "{">>
                \o styleObj(SubSeq(s, j + 7, close(j) - 1))
                \o <<"}", "}">>]
    IN  replaceAll(s, [j \in matches |-> close(j) + 1], replacements)

\* .replace(/\s+c/g, 'c') for the character c ('>' and '<')
removeSpaceBefore(s, c) ==
    LET matches == {j \in 1..Len(s) :
                       /\ IsWhitespace(s[j])
                       /\ matchAt(s, skipWhitespace(s, j), <<c>>)}
    IN  replaceAll(s,
                       [j \in matches |-> skipWhitespace(s, j) + 1],
                       [j \in matches |-> <<c>>])

\* .replace(/c\s+/g, 'c') for the character c ('<' and '>')
removeSpaceAfter(s, c) ==
    LET matches == {j \in 1..(Len(s) - 1) :
                       s[j] = c /\ IsWhitespace(s[j + 1])}
    IN  replaceAll(s,
                       [j \in matches |-> skipWhitespace(s, j + 1)],
                       [j \in matches |-> <<c>>])

\* /<(\w+)([^>]*?)\s*>\s*<\/\1>/ at index i: the index of the '>' that ends
\* the match, or 0.  The name \1 is the text between the "</" after the
\* first '>' and the next '>', and a prefix of the word after '<'.
emptyElementEnd(s, i) ==
    LET w == skipWord(s, i + 1)
        g == indexOf(s, <<">">>, w)
        k == skipWhitespace(s, g + 1)
        c == indexOf(s, <<">">>, k + 2)
    IN  IF /\ s[i] = "<"
           /\ w > i + 1
           /\ g # 0
           /\ matchAt(s, k, <<"<", "/">>)
           /\ c > k + 2
           /\ c - (k + 2) <= w - (i + 1)
           /\ SubSeq(s, k + 2, c - 1) = SubSeq(s, i + 1, i + c - (k + 2))
        THEN c ELSE 0

\* .replace(/<(\w+)([^>]*?)\s*>\s*<\/\1>/g, '<$1$2 />')
selfClose(s) ==
    LET matches == {j \in 1..Len(s) : emptyElementEnd(s, j) # 0}
        replacements ==
            [j \in matches |->
                trimEnd(SubSeq(s, j, indexOf(s, <<">">>, j) - 1))
                \o <<" ", "/", ">">>]
    IN  replaceAll(s, [j \in matches |-> emptyElementEnd(s, j) + 1],
                       replacements)

\* /(\w+)\s*=\s*<open>([^<close>]*)<close>/ at index i: the index of the
\* closing character that ends the match, or 0.
attributeEnd(s, i, open, close) ==
    LET a == skipWhitespace(s, skipWord(s, i))
        b == skipWhitespace(s, a + 1)
        c == indexOf(s, <<close>>, b + 1)
    IN  IF /\ IsWordChar(s[i])
           /\ matchAt(s, a, <<"=">>)
           /\ matchAt(s, b, <<open>>)
        THEN c ELSE 0

\* .replace(/(\w+)\s*=\s*{([^}]*)}/g, '$1={$2}') with open = '{' and
\* close = '}'; .replace(/(\w+)\s*=\s*"([^"]*)"/g, '$1="$2"') with both '"'
tightenAttributes(s, open, close) ==
    LET matches == {j \in 1..Len(s) : attributeEnd(s, j, open, close) # 0}
        replacements ==
            [j \in matches |->
                SubSeq(s, j, skipWord(s, j) - 1) \o <<"=">>
                \o SubSeq(s, skipWhitespace(s,
                                 skipWhitespace(s, skipWord(s, j)) + 1),
                          attributeEnd(s, j, open, close))]
    IN  replaceAll(s,
                       [j \in matches |-> attributeEnd(s, j, open, close) + 1],
                       replacements)

\* The rewrites of a raw fragment, lines 240-272, in their order; each
\* step works on the value of the step before it.
rewriteFragment(s) ==
    LET jsxComments == {htmlCommentsToJsx(v) : v \in {s}}
        classNames ==
            {replaceWord(v, <<"c", "l", "a", "s", "s", "=">>,
                         <<"c", "l", "a", "s", "s", "N", "a", "m", "e", "=">>) :
                v \in jsxComments}
        htmlFors ==
            {replaceWord(v, <<"f", "o", "r", "=">>,
                         <<"h", "t", "m", "l", "F", "o", "r", "=">>) :
                v \in classNames}
        styled == {styleToObject(v) : v \in htmlFors}
        spaced1 == {removeSpaceBefore(v, ">") : v \in styled}
        spaced2 == {removeSpaceAfter(v, "<") : v \in spaced1}
        spaced3 == {removeSpaceBefore(v, "<") : v \in spaced2}
        spaced4 == {removeSpaceAfter(v, ">") : v \in spaced3}
        closed == {selfClose(v) : v \in spaced4}
        braces == {tightenAttributes(v, "{", "}") : v \in closed}
    IN  CHOOSE r \in {tightenAttributes(v, "\"", "\"") : v \in braces} : TRUE

\* The text put around a declared component (lines 224-228) and around a
\* raw fragment (lines 275-284).
DECLARED_OPEN ==
    <<"\n">>

DECLARED_RENDER ==
    <<"\n", "\n", "r", "e", "n", "d", "e", "r", "(", "<">>

DECLARED_CLOSE ==
    <<" ", "/", ">", ")", ";", "\n", " ", " ", " ", " ", " ", " ",
      " ", " ", " ", " ">>

FRAGMENT_OPEN ==
    <<"\n", "c", "o", "n", "s", "t", " ", "G", "e", "n", "e", "r",
      "a", "t", "e", "d", "C", "o", "m", "p", "o", "n", "e", "n",
      "t", " ", "=", " ", "(", ")", " ", "=", ">", " ", "{", "\n",
      " ", " ", "r", "e", "t", "u", "r", "n", " ", "(", "\n", " ",
      " ", " ", " ", "<", "R", "e", "a", "c", "t", ".", "F", "r",
      "a", "g", "m", "e", "n", "t", ">", "\n", " ", " ", " ", " ",
      " ", " ">>

FRAGMENT_CLOSE ==
    <<"\n", " ", " ", " ", " ", "<", "/", "R", "e", "a", "c", "t",
      ".", "F", "r", "a", "g", "m", "e", "n", "t", ">", "\n", " ",
      " ", ")", ";", "\n", "}", ";", "\n", "r", "e", "n", "d", "e",
      "r", "(", "<", "G", "e", "n", "e", "r", "a", "t", "e", "d",
      "C", "o", "m", "p", "o", "n", "e", "n", "t", " ", "/", ">",
      ")", ";", "\n", " ", " ", " ", " ", " ", " ">>

\* normalize that wraps the text even when it holds no '<'.
normalizeWithoutTagCheck(processedCode) ==
    IF isCompleteComponent(processedCode) /\ hasComponentMatch(processedCode)
    THEN DECLARED_OPEN \o processedCode \o DECLARED_RENDER
         \o componentName(processedCode) \o DECLARED_CLOSE
    ELSE FRAGMENT_OPEN \o rewriteFragment(processedCode) \o FRAGMENT_CLOSE

\* Lines 216-287: a declared component gets its render call, a raw fragment
\* is cut at its first '<', rewritten and wrapped; '' without a '<'.
normalize(processedCode) ==
    LET firstTagIndex == indexOf(processedCode, <<"<">>, 1)
    IN  IF isCompleteComponent(processedCode)
           /\ hasComponentMatch(processedCode)
        THEN DECLARED_OPEN \o processedCode \o DECLARED_RENDER
             \o componentName(processedCode) \o DECLARED_CLOSE
        ELSE IF firstTagIndex = 0 THEN <<>>
        ELSE FRAGMENT_OPEN
             \o rewriteFragment(from(processedCode, firstTagIndex))
             \o FRAGMENT_CLOSE

\* The body of the useMemo of ReactLivePreview: the source handed to
\* LiveProvider, '' when there is nothing to evaluate.
cleanedCodeOf(code) ==
    CHOOSE r \in
        {IF trim(v) = <<>> THEN <<>>
         ELSE CHOOSE n \in
                  {normalize(p) :
                      p \in {trim(removeTrailingFence(removeLeadingFence(v)))}} :
                  TRUE :
            v \in {code}} : TRUE

\* ------------------------------------------------------------- LivePreview
\* (.*?) of /{\s*\/\*\s*(.*?)\s*\*\/\s*}/ begun at p: the least q >= p
\* with \s*\*\/\s*} standing at q and no line terminator in between, or 0.
RECURSIVE jsxCommentEnd(_, _)
jsxCommentEnd(s, q) ==
    LET star == skipWhitespace(s, q)
        brace == skipWhitespace(s, star + 2)
    IN  IF matchAt(s, star, <<"*", "/">>) /\ matchAt(s, brace, <<"}">>) THEN q
        ELSE IF q > Len(s) \/ IsLineTerminator(s[q]) THEN 0
        ELSE jsxCommentEnd(s, q + 1)

\* code.replace(/{\s*\/\*\s*(.*?)\s*\*\/\s*}/g, '<!-- $1 -->')
jsxCommentsToHtml(s) ==
    LET body(j) == skipWhitespace(s, skipWhitespace(s, j + 1) + 2)
        matches == {j \in 1..Len(s) :
                       /\ s[j] = "{"
                       /\ matchAt(s, skipWhitespace(s, j + 1), <<"/", "*">>)
                       /\ jsxCommentEnd(s, body(j)) # 0}
        close(j) == skipWhitespace(s,
                        skipWhitespace(s, jsxCommentEnd(s, body(j))) + 2)
        replacements ==
            [j \in matches |->
                <<"<", "!", "-", "-", " ">>
                \o SubSeq(s, body(j), jsxCommentEnd(s, body(j)) - 1)
                \o <<" ", "-", "-", ">">>]
    IN  replaceAll(s, [j \in matches |-> close(j) + 1], replacements)

\* The document of the template literal (lines 31-113) before and after
\* ${sanitizedCode}, each as one item of text: the head with the style shim
\* up to <body>, and </body></html>.
IFRAME_HEAD ==
    <<"<!DOCTYPE html><html><head><script>tw</script></head><body>">>

IFRAME_TAIL ==
    <<"</body></html>">>

\* The body of the useMemo of LivePreview: the srcDoc of the iframe.
iframeContentOf(code, fw) ==
    IF fw # "html" THEN <<>>
    ELSE CHOOSE r \in {IFRAME_HEAD \o jsxCommentsToHtml(v) \o IFRAME_TAIL :
                         v \in {code}} : TRUE

\* ------------------------------------------------------------- buffers
\* The contents the active file can have when the preview renders it: what
\* a CODE stream has written or the user has typed into the editor.
\* the empty buffer
B_EMPTY ==
    <<>>

\* a line break and nothing else
B_BLANK ==
    <<"\n">>

\* text with no tag and no declaration
B_TEXT ==
    <<"H", "i", " ", "x">>

\* a fragment with a class and a style attribute
B_DIV ==
    <<"<", "d", "i", "v", " ", "c", "l", "a", "s", "s", "=", "\"",
      "a", "\"", " ", "s", "t", "y", "l", "e", "=", "\"", "c", "o",
      "l", "o", "r", ":", " ", "r", "e", "d", ";", " ", "f", "o",
      "n", "t", "-", "s", "i", "z", "e", ":", " ", "1", "2", "p",
      "x", "\"", ">", "H", "i", "<", "/", "d", "i", "v", ">">>

\* a component declared with spaces
B_FOO ==
    <<"c", "o", "n", "s", "t", " ", "F", "o", "o", " ", "=", " ",
      "(", ")", " ", "=", ">", " ", "<", "d", "i", "v", ">", "x",
      "<", "/", "d", "i", "v", ">", ";">>

\* a component declared with a line break after the keyword
B_BAR ==
    <<"f", "u", "n", "c", "t", "i", "o", "n", "\n", "B", "a", "r",
      "(", ")", "{", "r", "e", "t", "u", "r", "n", " ", "<", "i",
      ">", "z", "<", "/", "i", ">", "}">>

\* a fragment whose attributes are separated by line breaks
B_LABEL ==
    <<"<", "l", "a", "b", "e", "l", "\n", "f", "o", "r", "=", "\"",
      "n", "\"", "\n", "c", "l", "a", "s", "s", "=", "\"", "b", "\"",
      ">", "\n", "<", "/", "l", "a", "b", "e", "l", ">">>

\* a style attribute with a declaration without value
B_MALFORMED ==
    <<"<", "p", " ", "i", "d", "=", "\"", "x", "\"", " ", "s", "t",
      "y", "l", "e", "=", "\"", "c", "o", "l", "o", "r", ":", ";",
      " ", "f", "o", "n", "t", "-", "s", "i", "z", "e", ":", " ",
      "1", "2", "p", "x", "\"", ">", "x", "<", "/", "p", ">">>

\* B_MALFORMED without the malformed declaration
B_WELLFORMED ==
    <<"<", "p", " ", "i", "d", "=", "\"", "x", "\"", " ", "s", "t",
      "y", "l", "e", "=", "\"", "f", "o", "n", "t", "-", "s", "i",
      "z", "e", ":", " ", "1", "2", "p", "x", "\"", ">", "x", "<",
      "/", "p", ">">>

\* a style attribute with a declaration without key
B_NOKEY ==
    <<"<", "p", " ", "i", "d", "=", "\"", "x", "\"", " ", "s", "t",
      "y", "l", "e", "=", "\"", ":", "r", "e", "d", ";", " ", "f",
      "o", "n", "t", "-", "s", "i", "z", "e", ":", " ", "1", "2",
      "p", "x", "\"", ">", "x", "<", "/", "p", ">">>

\* a fenced fragment after a line of prose
B_FENCED ==
    <<BACKTICK, BACKTICK, BACKTICK, "j", "s", "x", "\n", "S", "u", "r", "e", ":",
      "\n", "<", "b", ">", "y", "<", "/", "b", ">", "\n", BACKTICK, BACKTICK,
      BACKTICK>>

\* a fragment between fences without language tag, a line break at the end
B_PLAINFENCE ==
    <<BACKTICK, BACKTICK, BACKTICK, "\n", "<", "i", ">", "z", "<", "/", "i", ">",
      "\n", BACKTICK, BACKTICK, BACKTICK, "\n">>

\* a fragment with a JSX comment and an HTML comment
B_COMMENTS ==
    <<"<", "p", ">", "{", "/", "*", " ", "c", " ", "*", "/", "}",
      "<", "!", "-", "-", " ", "d", " ", "-", "-", ">", "<", "/",
      "p", ">">>

Buffers ==
    {B_EMPTY, B_BLANK, B_TEXT, B_DIV,
     B_FOO, B_BAR, B_LABEL, B_MALFORMED,
     B_WELLFORMED, B_NOKEY, B_FENCED, B_PLAINFENCE, B_COMMENTS}

\* ------------------------------------------------------------- auth values
\* req.cookies.get('session_token')?.value is undefined: no cookie.
NoCookie == <<>>

\* user: null
NoUser == <<>>

\* No request has been sent to an auth route yet.  A response is kept with
\* the number n of its request, the route, the cookie and the body of the
\* request, the status, the error and the user of the body, and what it does
\* to the session_token cookie: "set" it to session_token, "delete" it or
\* "none".
NoResponse ==
    [n |-> 0, route |-> "none", sent |-> NoCookie, body |-> <<>>,
     status |-> 0, error |-> "", user |-> NoUser, cookies |-> "none",
     session_token |-> NoCookie]

\* A sign-up request that has not arrived: where it is, its body, the rows
\* it has read and inserted, and its answer.
NoSignup ==
    [at |-> "none", body |-> <<>>, existingUser |-> <<>>, newUser |-> <<>>,
     status |-> 0, session_token |-> NoCookie]

\* The browser holds no session_token cookie.
EmptyJar ==
    [value |-> NoCookie, expires |-> 0]

\* ------------------------------------------------------------- state
VARIABLES
    isGenerating,          \* useState(false)
    renderedIsGenerating,  \* isGenerating as the latest render captured it
    selectedFramework,     \* useState('html')
    files,                 \* useState([{id: "1", name: "App.jsx", content}])
    messages,              \* useState([greeting])
    streamingCode,         \* useState("")
    toasts,                \* how often each text was given to toast.*
    nextId,                \* the next value of uuidv4()
    started,               \* calls of handleSendMessage that passed the guard
    events,                \* user events so far
        pc,                    \* per call: where it is suspended or how it ended
    hasImage,              \* per call: imageFile !== null
    framework,             \* per call: selectedFramework of its closure
    fileId,                \* per call: activeFileId of its closure
    aiMessageId,           \* per call: const aiMessageId
    streamedContent,       \* per call: let streamedContent
    isFirstChunk,          \* per call: let isFirstChunk
    responseType,          \* per call: let responseType
    delivered,             \* per call: the frames reader.read() has returned
    timer,                 \* per call: the setTimeout of finally is pending
    selectedDevice,        \* LivePreview: useState("desktop")
    iframeContent,         \* LivePreview: the useMemo of the iframe document
    cleanedCode,           \* ReactLivePreview: the useMemo of the source
    panel,                 \* what renderPreviewContent has put into the panel
    boundaryState,         \* ErrorBoundary: this.state
    elements,              \* iframe document: class and style of its elements
    readyState,            \* iframe document: document.readyState
    users,                 \* the rows of public.users
    user_sessions,         \* the rows of public.user_sessions
    now,                   \* the clock, in weeks
    nextToken,             \* the next value of randomBytes(32)
    cookie,                \* the browser's session_token cookie
    response,              \* the latest response of an auth route
    user,                  \* AuthProvider: useState<User | null>(null)
    loading,               \* AuthProvider: useState(true)
    location,              \* the route the browser shows
    redirectTimer,         \* sign-in page: the setTimeout of router.push('/')
    signups                \* per sign-up request in progress: where it is

vars ==
    <<isGenerating, renderedIsGenerating, selectedFramework, files, messages,
      streamingCode, toasts, nextId, started, events, pc, hasImage,
      framework, fileId, aiMessageId, streamedContent, isFirstChunk,
      responseType, delivered, timer, selectedDevice, iframeContent,
      cleanedCode, panel, boundaryState, elements, readyState, users,
      user_sessions, now, nextToken, cookie, response, user, loading,
      location, redirectTimer, signups>>

documentVars ==
    <<elements, readyState>>

serverVars ==
    <<users, user_sessions, now, nextToken>>

clientVars ==
    <<cookie, response, user, loading, location, redirectTimer>>

authVars ==
    <<serverVars, clientVars, signups>>

previewVars ==
    <<selectedDevice, iframeContent, cleanedCode, panel, boundaryState,
      documentVars, authVars>>

pageVars ==
    <<isGenerating, renderedIsGenerating, selectedFramework, files, messages,
      streamingCode, toasts, nextId, started, events>>

callVars ==
    <<pc, hasImage, framework, fileId, aiMessageId, streamedContent,
      isFirstChunk, responseType, delivered, timer>>

\* const [activeFileId, setActiveFileId] = useState("1"); the page holds one
\* file and creates no other, so the active file never changes.
activeFileId == "1"

Active == {"readingImage", "fetching", "reading"}

Ended == {"imageFailed", "complete", "failed"}

Init ==
    /\ isGenerating = FALSE
    /\ renderedIsGenerating = FALSE
    /\ selectedFramework = "html"
    /\ files = <<[id |-> "1", name |-> "App.jsx", content |-> INITIAL_CODE]>>
    /\ messages = <<[id |-> 0, role |-> "ai", content |-> GREETING,
                     code |-> UNDEFINED]>>
    /\ streamingCode = <<>>
    /\ toasts = [text \in ToastTexts |-> 0]
    /\ nextId = 1
    /\ started = 0
    /\ events = 0
    /\ pc = [s \in Sessions |-> "idle"]
    /\ hasImage = [s \in Sessions |-> FALSE]
    /\ framework = [s \in Sessions |-> "html"]
    /\ fileId = [s \in Sessions |-> activeFileId]
    /\ aiMessageId = [s \in Sessions |-> 0]
    /\ streamedContent = [s \in Sessions |-> <<>>]
    /\ isFirstChunk = [s \in Sessions |-> TRUE]
    /\ responseType = [s \in Sessions |-> "null"]
    /\ delivered = [s \in Sessions |-> <<>>]
    /\ timer = [s \in Sessions |-> FALSE]
    /\ selectedDevice = "desktop"
    /\ iframeContent = <<>>
    /\ cleanedCode = <<>>
    /\ panel = "unmounted"
    /\ boundaryState = [hasError |-> FALSE, error |-> UNDEFINED]
    /\ elements = <<>>
    /\ readyState = "none"
    /\ users = {}
    /\ user_sessions = {}
    /\ now = 0
    /\ nextToken = 1
    /\ cookie = EmptyJar
    /\ response = NoResponse
    /\ user = NoUser
    /\ loading = TRUE
    /\ location = "/"
    /\ redirectTimer = FALSE
    /\ signups = [r \in Racers |-> NoSignup]

\* ------------------------------------------------------------- page.tsx
\* setFiles(prev => prev.map(f => f.id === fileId ? {...f, content} : f))
handleFileContentChange(prev, id, newContent) ==
    [i \in DOMAIN prev |->
        IF prev[i].id = id THEN [prev[i] EXCEPT !.content = newContent]
        ELSE prev[i]]

\* files.find(f => f.id === activeFileId) || files[0]
activeFile ==
    IF \E i \in DOMAIN files : files[i].id = activeFileId
    THEN files[CHOOSE i \in DOMAIN files :
                 /\ files[i].id = activeFileId
                 /\ \A j \in DOMAIN files : files[j].id = activeFileId => i <= j]
    ELSE files[1]

\* String.prototype.replace(/ /g, ''): every space character is removed.
removeSpaces(s) ==
    SelectSeq(s, LAMBDA c : c # " ")

\* <LivePreview code={activeFile.content.replace(/ /g, '')} ... />
previewCode ==
    removeSpaces(activeFile.content)

\* imageFile ? `Image upload: ${imageFile.name}${prompt ? ` with prompt:
\* "${prompt}"` : ''}` : prompt
userPromptContent(prompt, image) ==
    IF image # NoImage
    THEN <<"I", "m", "a", "g", "e", " ", "u", "p", "l", "o", "a", "d",
      ":", " ">> \o image
         \o (IF prompt # <<>> THEN <<" ", "w", "i", "t", "h", " ", "p", "r", "o", "m", "p", "t",
      ":", " ", "\"">> \o prompt \o <<"\"">> ELSE <<>>)
    ELSE prompt

\* classify without the isFirstChunk test: every frame is looked at.
classifyEveryFrame(first, type, chunk) ==
    IF startsWith(chunk, CHAT_MARKER) THEN "CHAT"
    ELSE IF startsWith(chunk, CODE_MARKER) THEN "CODE"
    ELSE type

\* if (isFirstChunk) { if (chunk.startsWith("CHAT:")) responseType = "CHAT"
\* else if (chunk.startsWith("CODE:")) responseType = "CODE" }
classify(first, type, chunk) ==
    IF first /\ startsWith(chunk, CHAT_MARKER) THEN "CHAT"
    ELSE IF first /\ startsWith(chunk, CODE_MARKER) THEN "CODE"
    ELSE type

\* stripMarker with substring(4): the marker's colon is kept.
stripMarkerOffByOne(first, chunk) ==
    IF first /\ (startsWith(chunk, CHAT_MARKER) \/ startsWith(chunk, CODE_MARKER))
    THEN substring(chunk, MarkerLength - 1)
    ELSE chunk

\* chunk = chunk.substring(5), in the two branches that set responseType
stripMarker(first, chunk) ==
    IF first /\ (startsWith(chunk, CHAT_MARKER) \/ startsWith(chunk, CODE_MARKER))
    THEN substring(chunk, MarkerLength)
    ELSE chunk

\* accumulate with = in place of +=.
accumulateReplace(content, chunk) ==
    chunk

\* streamedContent += chunk
accumulate(content, chunk) ==
    content \o chunk

\* setContent without the test of the id: every message gets the content.
setContentOfAll(prev, id, content) ==
    [i \in DOMAIN prev |-> [prev[i] EXCEPT !.content = content]]

\* setMessages(prev => prev.map(msg => msg.id === id ? {...msg, content} : msg))
setContent(prev, id, content) ==
    [i \in DOMAIN prev |->
        IF prev[i].id = id THEN [prev[i] EXCEPT !.content = content]
        ELSE prev[i]]

\* setMessages(prev => prev.map(msg => msg.id === id ? {...msg, content, code}
\* : msg))
setContentAndCode(prev, id, content, code) ==
    [i \in DOMAIN prev |->
        IF prev[i].id = id
        THEN [prev[i] EXCEPT !.content = content, !.code = code]
        ELSE prev[i]]

\* The messages after the progress update of one frame (lines 182-198).
progressMessages(prev, id, type, content, fw) ==
    IF type = "CHAT" THEN setContent(prev, id, content)
    ELSE IF type = "CODE"
    THEN setContentAndCode(prev, id, GeneratingContent(fw), content)
    ELSE prev

\* setStreamingCode(streamedContent), in the CODE branch only.
progressStreamingCode(prev, type, content) ==
    IF type = "CODE" THEN content ELSE prev

\* progressFiles outside the CODE branch: the file is written for every kind.
progressFilesEveryKind(prev, id, type, content) ==
    handleFileContentChange(prev, id, content)

\* handleFileContentChange(activeFileId, streamedContent), in the CODE branch.
progressFiles(prev, id, type, content) ==
    IF type = "CODE" THEN handleFileContentChange(prev, id, content) ELSE prev

\* The messages after the stream has ended (lines 204-212).
finalMessages(prev, id, type, content, fw) ==
    IF type = "CODE"
    THEN setContentAndCode(prev, id, GeneratedContent(fw), content)
    ELSE prev

\* finalToasts with the toast outside the if: shown for every stream.
finalToastsEveryKind(shown, type, fw) ==
    toast(shown, ToastComplete(fw))

\* toast.success(`${selectedFramework.toUpperCase()} code generation
\* complete!`), for a CODE stream only.
finalToasts(shown, type, fw) ==
    IF type = "CODE" THEN toast(shown, ToastComplete(fw)) ELSE shown

\* The messages after the catch block (lines 219-221).
errorMessages(prev, id) ==
    setContent(prev, id, ERROR_CONTENT)

RECURSIVE SumLen(_, _)
SumLen(f, n) ==
    IF n = 0 THEN 0 ELSE Len(f[n]) + SumLen(f, n - 1)

\* The frames delivered so far, over all streams.
TotalDelivered ==
    SumLen(delivered, MaxEvents)

\* ------------------------------------------------------------- events
\* handleSubmit with nothing to send: the toast, and nothing else.
SubmitEmpty ==
    \E input \in Inputs :
        /\ trim(input.prompt) = <<>> /\ input.image = NoImage
        /\ events < MaxEvents
        /\ events' = events + 1
        /\ toasts' = toast(toasts, TOAST_EMPTY)
        /\ UNCHANGED <<previewVars, isGenerating, renderedIsGenerating, selectedFramework,
                       files, messages, streamingCode, nextId, started, callVars>>

\* Accepted without the isGenerating test.
AcceptedWhileGenerating(prompt, image) ==
    ~(trim(prompt) = <<>> /\ image = NoImage)

\* The guard of handleSubmit and of handleSendMessage, both reading the
\* isGenerating of the latest render: if (isGenerating) return.
Accepted(prompt, image) ==
    /\ ~(trim(prompt) = <<>> /\ image = NoImage)
    /\ ~renderedIsGenerating

\* handleSubmit with something to send while isGenerating: nothing happens.
SubmitWhileGenerating ==
    \E input \in Inputs :
        /\ ~(trim(input.prompt) = <<>> /\ input.image = NoImage)
        /\ ~Accepted(input.prompt, input.image)
        /\ UNCHANGED vars

\* handleSubmit -> handleSendMessage(input.trim(), imageFile), up to its
\* first await: the FileReader promise with an image, fetch without one.
\* React renders the updates of this event before the next event.
Submit ==
    \E input \in Inputs :
        /\ Accepted(input.prompt, input.image)
        /\ events < MaxEvents
        /\ LET s == started + 1
               userMessage == [id |-> nextId, role |-> "user",
                               content |-> userPromptContent(trim(input.prompt),
                                                             input.image),
                               code |-> UNDEFINED]
               aiMessage == [id |-> nextId + 1, role |-> "ai",
                             content |-> PLACEHOLDER, code |-> UNDEFINED]
           IN  /\ started' = s
               /\ events' = events + 1
               /\ isGenerating' = TRUE
               /\ renderedIsGenerating' = TRUE
               /\ hasImage' = [hasImage EXCEPT ![s] = input.image # NoImage]
               /\ framework' = [framework EXCEPT ![s] = selectedFramework]
               /\ fileId' = [fileId EXCEPT ![s] = activeFileId]
               /\ IF input.image # NoImage
                  THEN /\ messages' = Append(messages, userMessage)
                       /\ nextId' = nextId + 1
                       /\ pc' = [pc EXCEPT ![s] = "readingImage"]
                       /\ UNCHANGED <<streamingCode, aiMessageId>>
                  ELSE /\ messages' = Append(Append(messages, userMessage),
                                             aiMessage)
                       /\ nextId' = nextId + 2
                       /\ aiMessageId' = [aiMessageId EXCEPT ![s] = nextId + 1]
                       /\ streamingCode' = <<>>
                       /\ pc' = [pc EXCEPT ![s] = "fetching"]
               /\ UNCHANGED <<previewVars, selectedFramework, files, toasts, streamedContent,
                              isFirstChunk, responseType, delivered, timer>>

\* reader.onloadend: the image is read; the call goes on to fetch.
ImageLoaded(s) ==
    /\ pc[s] = "readingImage"
    /\ aiMessageId' = [aiMessageId EXCEPT ![s] = nextId]
    /\ nextId' = nextId + 1
    /\ streamingCode' = <<>>
    /\ messages' = Append(messages, [id |-> nextId, role |-> "ai",
                                     content |-> PLACEHOLDER, code |-> UNDEFINED])
    /\ pc' = [pc EXCEPT ![s] = "fetching"]
    /\ UNCHANGED <<previewVars, isGenerating, renderedIsGenerating, selectedFramework, files,
                   toasts, started, events, hasImage, framework, fileId,
                   streamedContent, isFirstChunk, responseType, delivered, timer>>

\* ImageError without setIsGenerating(false).
ImageErrorKeepsFlag(s) ==
    /\ pc[s] = "readingImage"
    /\ toasts' = toast(toasts, TOAST_IMAGE)
    /\ pc' = [pc EXCEPT ![s] = "imageFailed"]
    /\ UNCHANGED <<previewVars, isGenerating, renderedIsGenerating,
                   selectedFramework, files, messages, streamingCode, nextId,
                   started, events, hasImage, framework, fileId, aiMessageId,
                   streamedContent, isFirstChunk, responseType, delivered,
                   timer>>

\* reader.onerror: toast, setIsGenerating(false), return.
ImageError(s) ==
    /\ pc[s] = "readingImage"
    /\ toasts' = toast(toasts, TOAST_IMAGE)
    /\ isGenerating' = FALSE
    /\ pc' = [pc EXCEPT ![s] = "imageFailed"]
    /\ UNCHANGED <<previewVars, renderedIsGenerating, selectedFramework, files, messages,
                   streamingCode, nextId, started, events, hasImage, framework,
                   fileId, aiMessageId, streamedContent, isFirstChunk,
                   responseType, delivered, timer>>

\* fetch resolved with response.ok and a body: getReader(), first read.
FetchOk(s) ==
    /\ pc[s] = "fetching"
    /\ pc' = [pc EXCEPT ![s] = "reading"]
    /\ UNCHANGED <<previewVars, pageVars, hasImage, framework, fileId, aiMessageId,
                   streamedContent, isFirstChunk, responseType, delivered, timer>>

\* CatchFinally without the catch block: the finally block alone.
CatchFinallyWithoutCatch(s) ==
    /\ isGenerating' = FALSE
    /\ timer' = [timer EXCEPT ![s] = TRUE]
    /\ pc' = [pc EXCEPT ![s] = "failed"]
    /\ UNCHANGED <<previewVars, renderedIsGenerating, selectedFramework, files,
                   messages, toasts, streamingCode, nextId, started, events,
                   hasImage, framework, fileId, aiMessageId, streamedContent,
                   isFirstChunk, responseType, delivered>>

\* The catch block followed by the finally block.
CatchFinally(s) ==
    /\ toasts' = toast(toasts, TOAST_ERROR)
    /\ messages' = errorMessages(messages, aiMessageId[s])
    /\ isGenerating' = FALSE
    /\ timer' = [timer EXCEPT ![s] = TRUE]
    /\ pc' = [pc EXCEPT ![s] = "failed"]
    /\ UNCHANGED <<previewVars, renderedIsGenerating, selectedFramework, files,
                   streamingCode, nextId, started, events, hasImage, framework,
                   fileId, aiMessageId, streamedContent, isFirstChunk,
                   responseType, delivered>>

\* fetch rejected, or the response is not ok or has no body (the throw).
FetchFail(s) ==
    /\ pc[s] = "fetching"
    /\ CatchFinally(s)

\* One turn of the while loop (lines 163-202) with decoder.decode(value)
\* giving the text value.
Read(s, value) ==
    /\ pc[s] = "reading"
    /\ LET type == classify(isFirstChunk[s], responseType[s], value)
           chunk == stripMarker(isFirstChunk[s], value)
           content == accumulate(streamedContent[s], chunk)
       IN  /\ delivered' = [delivered EXCEPT ![s] = Append(@, value)]
           /\ responseType' = [responseType EXCEPT ![s] = type]
           /\ isFirstChunk' = [isFirstChunk EXCEPT ![s] = FALSE]
           /\ streamedContent' = [streamedContent EXCEPT ![s] = content]
           /\ messages' = progressMessages(messages, aiMessageId[s], type,
                                           content, framework[s])
           /\ streamingCode' = progressStreamingCode(streamingCode, type,
                                                     content)
           /\ files' = progressFiles(files, fileId[s], type, content)
    /\ UNCHANGED <<previewVars, isGenerating, renderedIsGenerating,
                   selectedFramework, toasts, nextId, started, events, pc,
                   hasImage, framework, fileId, aiMessageId, timer>>

\* reader.read() resolved with a value: one turn of the while loop.
ReadFrame(s) ==
    \E value \in Frames :
        /\ TotalDelivered < MaxFrames
        /\ Read(s, value)

\* reader.read() resolved with done: the code after the loop, then finally.
StreamDone(s) ==
    /\ pc[s] = "reading"
    /\ messages' = finalMessages(messages, aiMessageId[s], responseType[s],
                                 streamedContent[s], framework[s])
    /\ toasts' = finalToasts(toasts, responseType[s], framework[s])
    /\ isGenerating' = FALSE
    /\ timer' = [timer EXCEPT ![s] = TRUE]
    /\ pc' = [pc EXCEPT ![s] = "complete"]
    /\ UNCHANGED <<previewVars, renderedIsGenerating, selectedFramework, files,
                   streamingCode, nextId, started, events, hasImage, framework,
                   fileId, aiMessageId, streamedContent, isFirstChunk,
                   responseType, delivered>>

\* reader.read() rejected: catch, then finally.
StreamFail(s) ==
    /\ pc[s] = "reading"
    /\ CatchFinally(s)

\* TimerFire whose callback also resets the AI message of its call.
TimerFireResetsMessage(s) ==
    /\ timer[s]
    /\ timer' = [timer EXCEPT ![s] = FALSE]
    /\ streamingCode' = <<>>
    /\ messages' = setContent(messages, aiMessageId[s], PLACEHOLDER)
    /\ UNCHANGED <<previewVars, isGenerating, renderedIsGenerating, selectedFramework, files,
                   toasts, nextId, started, events, pc, hasImage,
                   framework, fileId, aiMessageId, streamedContent, isFirstChunk,
                   responseType, delivered>>

\* setTimeout(() => setStreamingCode(""), 1000) of the finally block fires.
TimerFire(s) ==
    /\ timer[s]
    /\ timer' = [timer EXCEPT ![s] = FALSE]
    /\ streamingCode' = <<>>
    /\ UNCHANGED <<previewVars, isGenerating, renderedIsGenerating, selectedFramework, files,
                   messages, toasts, nextId, started, events, pc, hasImage,
                   framework, fileId, aiMessageId, streamedContent, isFirstChunk,
                   responseType, delivered>>

\* React renders the page with the state as it is now.
Render ==
    /\ renderedIsGenerating # isGenerating
    /\ renderedIsGenerating' = isGenerating
    /\ UNCHANGED <<previewVars, isGenerating, selectedFramework, files, messages,
                   streamingCode, toasts, nextId, started, events, callVars>>

\* The framework <select>, disabled={isGenerating}.
SelectFramework ==
    \E fw \in Frameworks :
        /\ ~renderedIsGenerating
        /\ fw # selectedFramework
        /\ events < MaxEvents
        /\ events' = events + 1
        /\ selectedFramework' = fw
        /\ UNCHANGED <<previewVars, isGenerating, renderedIsGenerating, files, messages,
                       streamingCode, toasts, nextId, started, callVars>>

\* The code editor's onFileContentChange.
EditFile ==
    \E text \in EditTexts :
        /\ events < MaxEvents
        /\ events' = events + 1
        /\ files' = handleFileContentChange(files, activeFileId, text)
        /\ UNCHANGED <<previewVars, isGenerating, renderedIsGenerating, selectedFramework,
                       messages, streamingCode, toasts, nextId, started, callVars>>

Next ==
    \/ SubmitEmpty
    \/ SubmitWhileGenerating
    \/ Submit
    \/ \E s \in Sessions : ImageLoaded(s)
    \/ \E s \in Sessions : ImageError(s)
    \/ \E s \in Sessions : FetchOk(s)
    \/ \E s \in Sessions : FetchFail(s)
    \/ \E s \in Sessions : ReadFrame(s)
    \/ \E s \in Sessions : StreamDone(s)
    \/ \E s \in Sessions : StreamFail(s)
    \/ \E s \in Sessions : TimerFire(s)
    \/ Render
    \/ SelectFramework
    \/ EditFile

Spec ==
    Init /\ [][Next]_vars

\* ------------------------------------------------------------- chunking
\* The texts a response carries as a whole: "CODE:ab", "CHAT:ab" and
\* "plain".
T_CODE ==
    <<"C", "O", "D", "E", ":", "a", "b">>

T_CHAT ==
    <<"C", "H", "A", "T", ":", "a", "b">>

T_PLAIN ==
    <<"p", "l", "a", "i", "n">>

Texts == {T_CODE, T_CHAT, T_PLAIN}

\* The text of the frames, one after the other.
RECURSIVE Flatten(_)
Flatten(frames) ==
    IF frames = <<>> THEN <<>> ELSE Head(frames) \o Flatten(Tail(frames))

\* reader.read() resolved with a value, where the transport cuts the text of
\* the response into frames wherever it likes: value is a piece that
\* continues one of the texts.
ReadPiece(s) ==
    \E text \in Texts :
        \E i \in 1..Len(text) :
            /\ Len(delivered[s]) < MaxPieces
            /\ LET received == Flatten(delivered[s])
               IN  /\ Len(received) < i
                   /\ IsPrefix(received, text)
                   /\ Read(s, SubSeq(text, Len(received) + 1, i))

ChunkNext ==
    \/ Submit
    \/ \E s \in Sessions : ImageLoaded(s)
    \/ \E s \in Sessions : FetchOk(s)
    \/ \E s \in Sessions : ReadPiece(s)
    \/ \E s \in Sessions : StreamDone(s)
    \/ Render

\* The page with streams that end, cut into frames at any place.
ChunkSpec ==
    Init /\ [][ChunkNext]_vars

\* What a call awaits settles: the FileReader promise (123-128), fetch (148)
\* and reader.read() (164) each resolve or reject.
Settle(s) ==
    \/ ImageLoaded(s)
    \/ ImageError(s)
    \/ FetchOk(s)
    \/ FetchFail(s)
    \/ ReadFrame(s)
    \/ StreamDone(s)
    \/ StreamFail(s)

\* The page where every awaited promise settles in the end and React renders
\* every state update in the end.
FairSpec ==
    /\ Init /\ [][Next]_vars
    /\ WF_vars(\E s \in Sessions : Settle(s))
    /\ WF_vars(Render)

\* renderPreviewContent that gives the vue target the iframe of html.
renderPreviewContentVueAsHtml(fw, cleaned) ==
    IF fw \in {"html", "vue"} THEN "iframe"
    ELSE IF fw \in {"react", "nextjs"}
    THEN (IF cleaned = <<>> THEN "noPreview" ELSE "live")
    ELSE "none"

\* ------------------------------------------------------------- preview
\* What renderPreviewContent puts into the panel.
renderPreviewContent(fw, cleaned) ==
    IF fw = "html" THEN "iframe"
    ELSE IF fw \in {"react", "nextjs"}
    THEN (IF cleaned = <<>> THEN "noPreview" ELSE "live")
    ELSE IF fw = "vue" THEN "vue"
    ELSE "none"

\* cleanedCode with a memo that is computed once and never again.
memoCleanedCodeOnce(previous, code, fw) ==
    IF previous # <<>> THEN previous
    ELSE IF fw \in {"react", "nextjs"} THEN cleanedCodeOf(code) ELSE <<>>

\* const cleanedCode = useMemo(() => ..., [code]) of the ReactLivePreview
\* that LivePreview mounts for react and nextjs; '' where none is mounted.
memoCleanedCode(previous, code, fw) ==
    IF fw \in {"react", "nextjs"} THEN cleanedCodeOf(code) ELSE <<>>

\* this.state = { hasError: false }
BoundaryInitialState ==
    [hasError |-> FALSE, error |-> UNDEFINED]

\* getDerivedStateFromError that records the error without raising the flag.
getDerivedStateFromErrorNoFlag(error) ==
    [hasError |-> FALSE, error |-> error]

\* static getDerivedStateFromError(error) { return { hasError: true, error } }
getDerivedStateFromError(error) ==
    [hasError |-> TRUE, error |-> error]

BOUNDARY_DEFAULT_MESSAGE ==
    "Something went wrong rendering the preview."

\* The messages of the errors a generated component can throw while it
\* renders: "boom" and the empty message.
ErrorMessages ==
    {<<"b", "o", "o", "m">>, <<>>}

\* ErrorBoundary.render(): the fallback panel with
\* this.state.error?.message || 'Something went wrong ...', or the children.
boundaryRender(state) ==
    IF state.hasError
    THEN [shows |-> "fallback",
          message |-> IF state.error = UNDEFINED \/ state.error = <<>>
                      THEN <<BOUNDARY_DEFAULT_MESSAGE>>
                      ELSE state.error]
    ELSE [shows |-> "children", message |-> <<>>]

\* LivePreview renders with the props code and framework: both memos, the
\* content of the panel, and the ErrorBoundary, which keeps its state as
\* long as it stays mounted (the panel is and stays "live") and starts
\* anew when it is mounted again.
RenderLivePreview(code, fw) ==
    \E cleaned \in {memoCleanedCode(cleanedCode, code, fw)} :
        \E content \in {renderPreviewContent(fw, cleaned)} :
            /\ iframeContent' = iframeContentOf(code, fw)
            /\ cleanedCode' = cleaned
            /\ panel' = content
            /\ boundaryState' = IF panel = "live" /\ content = "live"
                                THEN boundaryState
                                ELSE BoundaryInitialState
            /\ UNCHANGED <<documentVars, authVars>>

\* The page renders for the first time: <LivePreview code=... framework=... />
MountPreview ==
    /\ panel = "unmounted"
    /\ RenderLivePreview(previewCode, selectedFramework)
    /\ UNCHANGED <<pageVars, callVars, selectedDevice>>

\* The code editor's onFileContentChange, and the render that follows it.
PreviewEditFile ==
    \E text \in Buffers :
        /\ panel # "unmounted"
        /\ text # activeFile.content
        /\ files' = handleFileContentChange(files, activeFileId, text)
        /\ RenderLivePreview(previewCode', selectedFramework)
        /\ UNCHANGED <<isGenerating, renderedIsGenerating, selectedFramework,
                       messages, streamingCode, toasts, nextId, started,
                       events, callVars, selectedDevice>>

\* The framework <select>, and the render that follows it.
PreviewSelectFramework ==
    \E fw \in Frameworks :
        /\ panel # "unmounted"
        /\ ~renderedIsGenerating
        /\ fw # selectedFramework
        /\ selectedFramework' = fw
        /\ RenderLivePreview(previewCode, fw)
        /\ UNCHANGED <<isGenerating, renderedIsGenerating, files, messages,
                       streamingCode, toasts, nextId, started, events,
                       callVars, selectedDevice>>

\* onClick={() => setSelectedDevice(...)}: LivePreview renders again with
\* the props it had.
setSelectedDevice ==
    \E device \in {"desktop", "mobile"} :
        /\ panel # "unmounted"
        /\ device # selectedDevice
        /\ selectedDevice' = device
        /\ RenderLivePreview(previewCode, selectedFramework)
        /\ UNCHANGED <<pageVars, callVars>>

\* The generated component throws while it renders under the ErrorBoundary.
ComponentThrows ==
    \E error \in ErrorMessages :
        /\ panel = "live"
        /\ boundaryRender(boundaryState).shows = "children"
        /\ boundaryState' = getDerivedStateFromError(error)
        /\ UNCHANGED <<pageVars, callVars, selectedDevice, iframeContent,
                       cleanedCode, panel, documentVars, authVars>>

PreviewNext ==
    \/ MountPreview
    \/ PreviewEditFile
    \/ PreviewSelectFramework
    \/ setSelectedDevice
    \/ ComponentThrows

\* The preview panel of the page while no generation runs.
PreviewSpec ==
    Init /\ [][PreviewNext]_vars


\* ------------------------------------------------------------- style shim
\* The script of the iframe document (lines 38-104).  The document and its
\* elements exist inside the iframe only: what is modelled of an element is
\* its class attribute (UNDEFINED without one) and the text its
\* style.cssText has been given, one item for each text appended.

\* The entries of the object literal classMap, each <<key, value>>, the
\* value as the one item of text that cssText += value appends.
classMapEntries ==
    {<<<<"f", "l", "e", "x">>,
        <<"display: flex;">>>>,
      <<<<"b", "l", "o", "c", "k">>,
        <<"display: block;">>>>,
      <<<<"i", "n", "l", "i", "n", "e">>,
        <<"display: inline;">>>>,
      <<<<"h", "i", "d", "d", "e", "n">>,
        <<"display: none;">>>>,
      <<<<"r", "e", "l", "a", "t", "i", "v", "e">>,
        <<"position: relative;">>>>,
      <<<<"a", "b", "s", "o", "l", "u", "t", "e">>,
        <<"position: absolute;">>>>,
      <<<<"f", "i", "x", "e", "d">>,
        <<"position: fixed;">>>>,
      <<<<"p", "-", "4">>,
        <<"padding: 1rem;">>>>,
      <<<<"m", "-", "4">>,
        <<"margin: -1rem;">>>>,
      <<<<"m", "x", "-", "a", "u", "t", "o">>,
        <<"margin-left: auto; margin-right: auto;">>>>,
      <<<<"b", "g", "-", "w", "h", "i", "t", "e">>,
        <<"background-color: white;">>>>,
      <<<<"b", "g", "-", "b", "l", "a", "c", "k">>,
        <<"background-color: black;">>>>,
      <<<<"b", "g", "-", "g", "r", "a", "y", "-", "1", "0", "0">>,
        <<"background-color: #f3f4f6;">>>>,
      <<<<"t", "e", "x", "t", "-", "b", "l", "a", "c", "k">>,
        <<"color: black;">>>>,
      <<<<"t", "e", "x", "t", "-", "w", "h", "i", "t", "e">>,
        <<"color: white;">>>>,
      <<<<"t", "e", "x", "t", "-", "g", "r", "a", "y", "-", "5", "0",
      "0">>,
        <<"color: #6b7280;">>>>,
      <<<<"t", "e", "x", "t", "-", "c", "e", "n", "t", "e", "r">>,
        <<"text-align: center;">>>>,
      <<<<"t", "e", "x", "t", "-", "l", "g">>,
        <<"font-size: 1.125rem; line-height: 1.75rem;">>>>,
      <<<<"f", "o", "n", "t", "-", "b", "o", "l", "d">>,
        <<"font-weight: 700;">>>>,
      <<<<"w", "-", "f", "u", "l", "l">>,
        <<"width: 100%;">>>>,
      <<<<"h", "-", "f", "u", "l", "l">>,
        <<"height: 100%;">>>>,
      <<<<"b", "o", "r", "d", "e", "r">>,
        <<"border-width: 1px; border-style: solid; border-color: #d1d5db;">>>>,
      <<<<"r", "o", "u", "n", "d", "e", "d">>,
        <<"border-radius: 0.25rem;">>>>,
      <<<<"r", "o", "u", "n", "d", "e", "d", "-", "l", "g">>,
        <<"border-radius: 0.5rem;">>>>}

\* The own property names of classMap.
classMapKeys ==
    {entry[1] : entry \in classMapEntries}

\* The property names classMap inherits from Object.prototype.
ObjectPrototypeNames ==
    {<<"c", "o", "n", "s", "t", "r", "u", "c", "t", "o", "r">>,
     <<"t", "o", "S", "t", "r", "i", "n", "g">>,
     <<"t", "o", "L", "o", "c", "a", "l", "e", "S", "t", "r", "i",
        "n", "g">>,
     <<"v", "a", "l", "u", "e", "O", "f">>,
     <<"h", "a", "s", "O", "w", "n", "P", "r", "o", "p", "e", "r",
        "t", "y">>,
     <<"i", "s", "P", "r", "o", "t", "o", "t", "y", "p", "e", "O",
        "f">>,
     <<"p", "r", "o", "p", "e", "r", "t", "y", "I", "s", "E", "n",
        "u", "m", "e", "r", "a", "b", "l", "e">>,
     <<"_", "_", "p", "r", "o", "t", "o", "_", "_">>}

\* String(value) of an inherited property, as cssText += value appends it.
inheritedText(cls) ==
    IF cls = <<"_", "_", "p", "r", "o", "t", "o", "_", "_">> THEN <<"[object Object]">>
    ELSE <<"function () { [native code] }">>

\* this.classMap[cls] read through own keys only.
classMapOwn(cls) ==
    IF cls \in classMapKeys
    THEN (CHOOSE entry \in classMapEntries : entry[1] = cls)[2]
    ELSE UNDEFINED

\* this.classMap[cls]: the own property, else the property inherited from
\* Object.prototype, else undefined.
classMapGet(cls) ==
    IF cls \in classMapKeys
    THEN (CHOOSE entry \in classMapEntries : entry[1] = cls)[2]
    ELSE IF cls \in ObjectPrototypeNames THEN inheritedText(cls)
    ELSE UNDEFINED

\* classes.forEach(cls => { if (this.classMap[cls]) el.style.cssText +=
\* this.classMap[cls] }), from the class at index i on.
RECURSIVE appendClasses(_, _, _)
appendClasses(cssText, classes, i) ==
    IF i > Len(classes) THEN cssText
    ELSE appendClasses(IF classMapGet(classes[i]) # UNDEFINED
                       THEN cssText \o classMapGet(classes[i])
                       ELSE cssText,
                       classes, i + 1)

\* elements.forEach(el => ...) over document.querySelectorAll('[class]'):
\* the elements without a class attribute are not among them.
processElements(els) ==
    [i \in DOMAIN els |->
        IF els[i].class = UNDEFINED THEN els[i]
        ELSE [els[i] EXCEPT
                !.cssText = appendClasses(@, split(els[i].class, " "), 1)]]

\* The class attributes of the elements of a document.
C_FLEX_P4 ==
    <<"f", "l", "e", "x", " ", "p", "-", "4">>

\* two spaces, and a name that is no key
C_UNKNOWN ==
    <<"p", "-", "4", " ", " ", "u", "n", "k", "n", "o", "w", "n">>

\* the name of a property of Object.prototype
C_CONSTRUCTOR ==
    <<"c", "o", "n", "s", "t", "r", "u", "c", "t", "o", "r">>

\* the empty attribute
C_EMPTY ==
    <<>>

\* two names separated by a line break
C_LINES ==
    <<"f", "l", "e", "x", "\n", "h", "i", "d", "d", "e", "n">>

\* the two spacing classes with a length
C_P4_M4 ==
    <<"p", "-", "4", " ", "m", "-", "4">>

ClassAttributes ==
    {UNDEFINED, C_FLEX_P4, C_UNKNOWN, C_CONSTRUCTOR, C_EMPTY, C_LINES,
     C_P4_M4}

\* The style attributes of the markup, as the text of style.cssText.
StyleAttributes ==
    {<<>>, <<"color: red;">>}

ElementsOfMarkup ==
    [class : ClassAttributes, cssText : StyleAttributes]

\* The sequences of at most n elements.
Documents(n) ==
    UNION {[1..k -> ElementsOfMarkup] : k \in 0..n}

\* The iframe loads its srcDoc: the document is parsed, the script has run
\* and registered its listener.
LoadDocument ==
    \E document \in Documents(MaxElements) :
        /\ elements' = document
        /\ readyState' = "loading"
        /\ UNCHANGED <<pageVars, callVars, selectedDevice, iframeContent,
                       cleanedCode, panel, boundaryState, authVars>>

\* document.addEventListener('DOMContentLoaded', () => tw.init()):
\* injectBaseStyles, then processElements.
DOMContentLoaded ==
    /\ readyState = "loading"
    /\ elements' = processElements(elements)
    /\ readyState' = "complete"
    /\ UNCHANGED <<pageVars, callVars, selectedDevice, iframeContent,
                   cleanedCode, panel, boundaryState, authVars>>

ShimNext ==
    \/ LoadDocument
    \/ DOMContentLoaded

\* The document inside the iframe of the html target.
ShimSpec ==
    Init /\ [][ShimNext]_vars

\* ------------------------------------------------------------- auth routes
\* expires_at.setDate(expires_at.getDate() + 7): 7 days, in weeks
SessionWeeks == 1

\* maxAge: 60 * 60 * 24 * 7: 7 days in seconds, in weeks
MaxAgeWeeks == 1

\* What the sign-in form holds: emails (one without local part, one empty),
\* passwords and names.
Emails ==
    {<<"a", "@", "x">>, <<"@", "x">>, <<>>}

Passwords ==
    {"p", "q", ""}

Names ==
    {<<"b">>, <<>>}

\* The error texts of the routes.
SIGNUP_REQUIRED == "Email, password, and username are required"

SIGNUP_EXISTS == "User with this email already exists"

SIGNUP_CREATE == "Failed to create user"

SIGNIN_REQUIRED == "Email and password are required"

SIGNIN_INVALID == "Invalid email or password"

SESSION_CREATE == "Failed to create session"

\* A token no session was created with.
UNKNOWN_TOKEN == <<0>>

\* randomBytes(32).toString('hex'): the n-th value drawn.
token(n) ==
    <<n>>

\* bcrypt.hash(password, 10)
hash(password) ==
    <<"bcrypt", password>>

\* bcrypt.compare(password, password_hash)
compare(password, password_hash) ==
    password_hash = hash(password)

\* .single(): the row when the query gives exactly one, else data null.
single(rows) ==
    IF Cardinality(rows) = 1 THEN <<CHOOSE row \in rows : TRUE>> ELSE <<>>

\* insertUserFails for a users table without UNIQUE constraints.
insertNeverFails(email, username) ==
    FALSE

\* email VARCHAR(255) NOT NULL UNIQUE, username VARCHAR(100) NOT NULL UNIQUE
insertUserFails(email, username) ==
    \E row \in users : row.email = email \/ row.username = username

\* id UUID NOT NULL DEFAULT gen_random_uuid(): users are never deleted.
newUserId ==
    Cardinality(users) + 1

\* { id, email, username } of a row of users
publicUser(row) ==
    <<[id |-> row.id, email |-> row.email, username |-> row.username]>>

\* The row of user_sessions that sign-up and sign-in insert.
newSession(user_id) ==
    [user_id |-> user_id, session_token |-> token(nextToken),
     expires_at |-> now + SessionWeeks, last_accessed |-> now]

\* The browser's cookie after a response: response.cookies.set(
\* 'session_token', session_token, {maxAge, ...}) stores the token for
\* maxAge, response.cookies.delete('session_token') removes it.
storeCookies(jar, answer) ==
    IF answer.cookies = "set"
    THEN [value |-> answer.session_token, expires |-> now + MaxAgeWeeks]
    ELSE IF answer.cookies = "delete" THEN EmptyJar
    ELSE jar

\* The cookie the browser sends: none once maxAge has passed.
sentCookie ==
    IF cookie.value # NoCookie /\ now < cookie.expires
    THEN cookie.value ELSE NoCookie

\* NextResponse.json(...) of a route, with its cookie if it sets one.
respond(route, sent, body, status, usr, session_token) ==
    [n |-> response.n + 1, route |-> route, sent |-> sent, body |-> body,
     status |-> status, error |-> "", user |-> usr,
     cookies |-> IF route = "signout" THEN "delete"
                 ELSE IF session_token # NoCookie THEN "set" ELSE "none",
     session_token |-> session_token]

\* NextResponse.json({ error }, { status }) of a route.
fail(route, sent, body, status, error) ==
    [respond(route, sent, body, status, NoUser, NoCookie)
        EXCEPT !.error = error]

\* The row that insert({ email, password_hash, username }) gives to users:
\* is_active BOOLEAN DEFAULT true.
newUserRow(body) ==
    [id |-> newUserId, email |-> body.email,
     password_hash |-> hash(body.password), username |-> body.username,
     is_active |-> TRUE]

\* POST /api/auth/signup that does not look for the email first.
signupWithoutLookup(sent, body) ==
    /\ UNCHANGED now
    /\ IF body.email = <<>> \/ body.password = "" \/ body.username = <<>>
       THEN /\ response' = fail("signup", sent, body, 400, SIGNUP_REQUIRED)
            /\ UNCHANGED <<users, user_sessions, nextToken>>
       ELSE /\ nextToken <= MaxTokens
            /\ LET newUser == newUserRow(body)
               IN  /\ users' = users \union {newUser}
                   /\ \/ /\ user_sessions' =
                                user_sessions \union {newSession(newUser.id)}
                         /\ nextToken' = nextToken + 1
                         /\ response' = respond("signup", sent, body, 200,
                                                publicUser(newUser),
                                                token(nextToken))
                      \/ /\ response' = fail("signup", sent, body, 500,
                                             SESSION_CREATE)
                         /\ UNCHANGED <<user_sessions, nextToken>>

\* POST /api/auth/signup: the insert into user_sessions gives sessionError
\* or not, as the database decides.
signupPOST(sent, body) ==
    /\ UNCHANGED now
    /\ IF body.email = <<>> \/ body.password = "" \/ body.username = <<>>
       THEN /\ response' = fail("signup", sent, body, 400, SIGNUP_REQUIRED)
            /\ UNCHANGED <<users, user_sessions, nextToken>>
       ELSE IF single({row \in users : row.email = body.email}) # <<>>
       THEN /\ response' = fail("signup", sent, body, 409, SIGNUP_EXISTS)
            /\ UNCHANGED <<users, user_sessions, nextToken>>
       ELSE IF insertUserFails(body.email, body.username)
       THEN /\ response' = fail("signup", sent, body, 500, SIGNUP_CREATE)
            /\ UNCHANGED <<users, user_sessions, nextToken>>
       ELSE /\ nextToken <= MaxTokens
            /\ LET newUser == newUserRow(body)
               IN  /\ users' = users \union {newUser}
                   /\ \/ /\ user_sessions' =
                                user_sessions \union {newSession(newUser.id)}
                         /\ nextToken' = nextToken + 1
                         /\ response' = respond("signup", sent, body, 200,
                                                publicUser(newUser),
                                                token(nextToken))
                      \/ /\ response' = fail("signup", sent, body, 500,
                                             SESSION_CREATE)
                         /\ UNCHANGED <<user_sessions, nextToken>>

\* signinError that tells a wrong password from an unknown email.
signinErrorTellsPassword(found, password) ==
    IF found = <<>> THEN SIGNIN_INVALID
    ELSE IF ~compare(password, found[1].password_hash) THEN "Wrong password"
    ELSE ""

\* The error of the two 401 returns of sign-in (lines 27-42): no active user
\* with the email, or bcrypt.compare is false; "" when neither returns.
signinError(found, password) ==
    IF found = <<>> THEN SIGNIN_INVALID
    ELSE IF ~compare(password, found[1].password_hash) THEN SIGNIN_INVALID
    ELSE ""

\* POST /api/auth/signin that deletes the user's earlier sessions.
signinSingleSession(sent, body) ==
    /\ UNCHANGED <<users, now>>
    /\ IF body.email = <<>> \/ body.password = ""
       THEN /\ response' = fail("signin", sent, body, 400, SIGNIN_REQUIRED)
            /\ UNCHANGED <<user_sessions, nextToken>>
       ELSE LET found == single({row \in users : /\ row.email = body.email
                                                   /\ row.is_active})
                error == signinError(found, body.password)
            IN  IF error # ""
                THEN /\ response' = fail("signin", sent, body, 401, error)
                     /\ UNCHANGED <<user_sessions, nextToken>>
                ELSE /\ nextToken <= MaxTokens
                     /\ \/ /\ user_sessions' =
                                  {row \in user_sessions :
                                      row.user_id # found[1].id}
                                  \union {newSession(found[1].id)}
                           /\ nextToken' = nextToken + 1
                           /\ response' = respond("signin", sent, body, 200,
                                                  publicUser(found[1]),
                                                  token(nextToken))
                        \/ /\ response' = fail("signin", sent, body, 500,
                                               SESSION_CREATE)
                           /\ UNCHANGED <<user_sessions, nextToken>>

\* POST /api/auth/signin: the insert into user_sessions gives sessionError
\* or not, as the database decides.
signinPOST(sent, body) ==
    /\ UNCHANGED <<users, now>>
    /\ IF body.email = <<>> \/ body.password = ""
       THEN /\ response' = fail("signin", sent, body, 400, SIGNIN_REQUIRED)
            /\ UNCHANGED <<user_sessions, nextToken>>
       ELSE LET found == single({row \in users : /\ row.email = body.email
                                                   /\ row.is_active})
                error == signinError(found, body.password)
            IN  IF error # ""
                THEN /\ response' = fail("signin", sent, body, 401, error)
                     /\ UNCHANGED <<user_sessions, nextToken>>
                ELSE /\ nextToken <= MaxTokens
                     /\ \/ /\ user_sessions' =
                                  user_sessions
                                  \union {newSession(found[1].id)}
                           /\ nextToken' = nextToken + 1
                           /\ response' = respond("signin", sent, body, 200,
                                                  publicUser(found[1]),
                                                  token(nextToken))
                        \/ /\ response' = fail("signin", sent, body, 500,
                                               SESSION_CREATE)
                           /\ UNCHANGED <<user_sessions, nextToken>>

\* GET /api/auth/user that does not look at expires_at.
userWithoutExpiry(session_token) ==
    /\ UNCHANGED <<users, now, nextToken>>
    /\ LET session == single({row \in user_sessions :
                                 row.session_token = session_token})
       IN  IF session_token = NoCookie \/ session = <<>>
           THEN /\ response' = respond("user", session_token, <<>>, 200,
                                       NoUser, NoCookie)
                /\ UNCHANGED user_sessions
           ELSE /\ user_sessions' =
                       (user_sessions \ {session[1]})
                       \union {[session[1] EXCEPT !.last_accessed = now]}
                /\ response' =
                       respond("user", session_token, <<>>, 200,
                               publicUser(CHOOSE row \in users :
                                              row.id = session[1].user_id),
                               NoCookie)

\* GET /api/auth/user
userGET(session_token) ==
    /\ UNCHANGED <<users, now, nextToken>>
    /\ LET session == single({row \in user_sessions :
                                 row.session_token = session_token})
       IN  IF session_token = NoCookie \/ session = <<>>
           THEN /\ response' = respond("user", session_token, <<>>, 200,
                                       NoUser, NoCookie)
                /\ UNCHANGED user_sessions
           ELSE IF session[1].expires_at < now
           THEN /\ user_sessions' =
                       {row \in user_sessions :
                           row.session_token # session_token}
                /\ response' = respond("user", session_token, <<>>, 200,
                                       NoUser, NoCookie)
           ELSE /\ user_sessions' =
                       (user_sessions \ {session[1]})
                       \union {[session[1] EXCEPT !.last_accessed = now]}
                /\ response' =
                       respond("user", session_token, <<>>, 200,
                               publicUser(CHOOSE row \in users :
                                              row.id = session[1].user_id),
                               NoCookie)

\* POST /api/auth/signout that clears the cookie and keeps the session.
signoutKeepsSession(session_token) ==
    /\ UNCHANGED <<users, now, nextToken, user_sessions>>
    /\ response' = respond("signout", session_token, <<>>, 200, NoUser,
                           NoCookie)

\* POST /api/auth/signout
signoutPOST(session_token) ==
    /\ UNCHANGED <<users, now, nextToken>>
    /\ user_sessions' =
           IF session_token # NoCookie
           THEN {row \in user_sessions : row.session_token # session_token}
           ELSE user_sessions
    /\ response' = respond("signout", session_token, <<>>, 200, NoUser,
                           NoCookie)

\* ------------------------------------------------------------- auth client
\* What the page at "/" returns (page.tsx, lines 83-95 and 255), for every
\* value of loading and user.
pageReturnsAlways(ld, usr) ==
    "app"

\* What the page at "/" returns (page.tsx, lines 83-95 and 255).
pageReturns(ld, usr) ==
    IF ld THEN "spinner"
    ELSE IF usr = NoUser THEN "nothing"
    ELSE "app"

\* What the browser shows.
view ==
    IF location = "/" THEN pageReturns(loading, user) ELSE "sign-in"

\* useEffect(() => { if (!loading && !user) router.push('/sign-in') }) of the
\* page at "/": the route after the render with these values.
afterEffect(route, ld, usr) ==
    IF route = "/" /\ ~ld /\ usr = NoUser THEN "/sign-in" ELSE route

\* The browser loads a route: AuthProvider mounts with its initial state.
LoadPage ==
    \E route \in {"/", "/sign-in"} :
        /\ location' = route
        /\ user' = NoUser
        /\ loading' = TRUE
        /\ redirectTimer' = FALSE
        /\ UNCHANGED <<pageVars, callVars, selectedDevice, iframeContent,
                       cleanedCode, panel, boundaryState, documentVars, signups,
                       serverVars, cookie, response>>

\* checkUser: the route has answered.
checkUser ==
    /\ loading
    /\ response.n < MaxRequests
    /\ userGET(sentCookie)
    /\ cookie' = storeCookies(cookie, response')
    /\ user' = response'.user
    /\ loading' = FALSE
    /\ location' = afterEffect(location, FALSE, response'.user)
    /\ UNCHANGED <<pageVars, callVars, selectedDevice, iframeContent,
                   cleanedCode, panel, boundaryState, documentVars, signups,
                   redirectTimer>>

\* checkUser: fetch has thrown.
checkUserFails ==
    /\ loading
    /\ user' = NoUser
    /\ loading' = FALSE
    /\ location' = afterEffect(location, FALSE, NoUser)
    /\ UNCHANGED <<pageVars, callVars, selectedDevice, iframeContent,
                   cleanedCode, panel, boundaryState, documentVars, signups,
                   serverVars, cookie, response, redirectTimer>>

\* handleSubmit of the sign-in page with isSignUp: signUp(email, password,
\* name), whose body has username: fullName || email.split('@')[0]; with the
\* answer ok, setUser and the timer of router.push('/').
signUp ==
    \E email \in Emails, password \in Passwords \ {"q"}, fullName \in Names :
        /\ location = "/sign-in"
        /\ response.n < MaxRequests
        /\ signupPOST(sentCookie,
                      [email |-> email, password |-> password,
                       username |-> IF fullName # <<>> THEN fullName
                                    ELSE split(email, "@")[1]])
        /\ cookie' = storeCookies(cookie, response')
        /\ user' = IF response'.status = 200 THEN response'.user ELSE user
        /\ redirectTimer' = (redirectTimer \/ response'.status = 200)
        /\ UNCHANGED <<pageVars, callVars, selectedDevice, iframeContent,
                       cleanedCode, panel, boundaryState, documentVars, signups,
                       loading, location>>

\* setTimeout(() => router.push('/'), 1500) of the sign-in page fires.
RedirectTimerFires ==
    /\ redirectTimer
    /\ redirectTimer' = FALSE
    /\ location' = afterEffect("/", loading, user)
    /\ UNCHANGED <<pageVars, callVars, selectedDevice, iframeContent,
                   cleanedCode, panel, boundaryState, documentVars, signups,
                   serverVars, cookie, response, user, loading>>

\* handleSubmit of the sign-in page without isSignUp: signIn(email,
\* password); with the answer ok, setUser and router.push('/').
signIn ==
    \E email \in Emails, password \in Passwords :
        /\ location = "/sign-in"
        /\ response.n < MaxRequests
        /\ signinPOST(sentCookie, [email |-> email, password |-> password])
        /\ cookie' = storeCookies(cookie, response')
        /\ user' = IF response'.status = 200 THEN response'.user ELSE user
        /\ location' = IF response'.status = 200
                       THEN afterEffect("/", loading, response'.user)
                       ELSE location
        /\ UNCHANGED <<pageVars, callVars, selectedDevice, iframeContent,
                       cleanedCode, panel, boundaryState, documentVars, signups,
                       loading, redirectTimer>>

\* handleSignOut of the page at "/": signOut(), whose fetch has answered,
\* then router.push('/sign-in').
signOut ==
    /\ view = "app"
    /\ response.n < MaxRequests
    /\ signoutPOST(sentCookie)
    /\ cookie' = storeCookies(cookie, response')
    /\ user' = NoUser
    /\ location' = "/sign-in"
    /\ UNCHANGED <<pageVars, callVars, selectedDevice, iframeContent,
                   cleanedCode, panel, boundaryState, documentVars, signups,
                   loading, redirectTimer>>

\* handleSignOut of the page at "/": the fetch of signOut() has thrown,
\* which signOut catches; then router.push('/sign-in').
signOutFails ==
    /\ view = "app"
    /\ location' = "/sign-in"
    /\ UNCHANGED <<pageVars, callVars, selectedDevice, iframeContent,
                   cleanedCode, panel, boundaryState, documentVars, signups,
                   serverVars, cookie, response, user, loading,
                   redirectTimer>>

\* A request of another client than this browser, whose cookie is the
\* token of a session created before or one never created: the check, or
\* sign-out.
OtherClient ==
    \E session_token \in {token(n) : n \in 1..(nextToken - 1)}
                         \union {UNKNOWN_TOKEN} :
        /\ response.n < MaxRequests
        /\ \/ userGET(session_token)
           \/ signoutPOST(session_token)
        /\ UNCHANGED <<pageVars, callVars, selectedDevice, iframeContent,
                       cleanedCode, panel, boundaryState, documentVars, signups,
                       cookie, user, loading, location, redirectTimer>>

\* Time passes: a week.
Tick ==
        /\ now < MaxTime
        /\ now' = now + 1
        /\ UNCHANGED <<pageVars, callVars, selectedDevice, iframeContent,
                       cleanedCode, panel, boundaryState, documentVars, signups,
                       users, user_sessions, nextToken, clientVars>>

AuthNext ==
    \/ LoadPage
    \/ checkUser
    \/ checkUserFails
    \/ signUp
    \/ RedirectTimerFires
    \/ signIn
    \/ signOut
    \/ signOutFails
    \/ OtherClient
    \/ Tick

\* The auth routes, and AuthProvider with the pages that use it.
AuthSpec ==
    Init /\ [][AuthNext]_vars

\* ------------------------------------------------------------- auth server
\* A sign-up request of another client than this browser.
OtherSignUp ==
    \E email \in Emails, password \in Passwords \ {"q"}, username \in Names :
        /\ response.n < MaxRequests
        /\ signupPOST(NoCookie, [email |-> email, password |-> password,
                                 username |-> username])
        /\ UNCHANGED <<pageVars, callVars, selectedDevice, iframeContent,
                       cleanedCode, panel, boundaryState, documentVars, signups,
                       cookie, user, loading, location, redirectTimer>>

\* A sign-in request of another client than this browser.
OtherSignIn ==
    \E email \in Emails, password \in Passwords :
        /\ response.n < MaxRequests
        /\ signinPOST(NoCookie, [email |-> email, password |-> password])
        /\ UNCHANGED <<pageVars, callVars, selectedDevice, iframeContent,
                       cleanedCode, panel, boundaryState, documentVars, signups,
                       cookie, user, loading, location, redirectTimer>>

\* An administrator deactivates a user: UPDATE users SET is_active = false.
\* No route changes the column; the table has it for this.
Deactivate ==
    \E row \in users :
        /\ row.is_active
        /\ users' = (users \ {row}) \union {[row EXCEPT !.is_active = FALSE]}
        /\ UNCHANGED <<pageVars, callVars, selectedDevice, iframeContent,
                       cleanedCode, panel, boundaryState, documentVars, signups,
                       user_sessions, now, nextToken, clientVars>>

ServerNext ==
    \/ OtherSignUp
    \/ OtherSignIn
    \/ OtherClient
    \/ Deactivate
    \/ Tick

\* The auth routes as any client calls them, with the administrator.
ServerSpec ==
    Init /\ [][ServerNext]_vars

\* ------------------------------------------------------------- sign-up race
\* The statements of POST /api/auth/signup between its awaits, for requests
\* that the server works on at the same time.
\* await req.json() and the validation (lines 9-17).
SignupArrives(r) ==
    \E email \in {<<"a", "@", "x">>, <<"@", "x">>},
       username \in {<<"b">>, <<"c">>, <<>>} :
        /\ signups[r].at = "none"
        /\ LET body == [email |-> email, password |-> "p",
                        username |-> username]
           IN  signups' =
                  [signups EXCEPT ![r] =
                      IF body.email = <<>> \/ body.password = ""
                         \/ body.username = <<>>
                      THEN [@ EXCEPT !.at = "done", !.body = body,
                                     !.status = 400]
                      ELSE [@ EXCEPT !.at = "lookup", !.body = body]]
        /\ UNCHANGED <<pageVars, callVars, selectedDevice, iframeContent,
                       cleanedCode, panel, boundaryState, documentVars,
                       serverVars, clientVars>>

\* The select of the existing user has answered (lines 20-31).
SignupLookup(r) ==
    /\ signups[r].at = "lookup"
    /\ LET existingUser ==
               single({row \in users : row.email = signups[r].body.email})
       IN  signups' =
              [signups EXCEPT ![r] =
                  IF existingUser # <<>>
                  THEN [@ EXCEPT !.at = "done", !.status = 409,
                                 !.existingUser = existingUser]
                  ELSE [@ EXCEPT !.at = "insert"]]
    /\ UNCHANGED <<pageVars, callVars, selectedDevice, iframeContent,
                   cleanedCode, panel, boundaryState, documentVars,
                   serverVars, clientVars>>

\* bcrypt.hash and the insert into users have answered (lines 34-54).
SignupInsert(r) ==
    /\ signups[r].at = "insert"
    /\ LET body == signups[r].body
       IN  IF insertUserFails(body.email, body.username)
           THEN /\ signups' = [signups EXCEPT ![r].at = "done",
                                              ![r].status = 500]
                /\ UNCHANGED users
           ELSE /\ users' = users \union {newUserRow(body)}
                /\ signups' = [signups EXCEPT ![r].at = "session",
                                              ![r].newUser =
                                                  <<newUserRow(body)>>]
    /\ UNCHANGED <<pageVars, callVars, selectedDevice, iframeContent,
                   cleanedCode, panel, boundaryState, documentVars,
                   user_sessions, now, nextToken, clientVars>>

\* The insert into user_sessions has answered (lines 57-102).
SignupSession(r) ==
    /\ signups[r].at = "session"
    /\ nextToken <= MaxTokens
    /\ \/ /\ user_sessions' =
                 user_sessions \union {newSession(signups[r].newUser[1].id)}
          /\ nextToken' = nextToken + 1
          /\ signups' = [signups EXCEPT ![r].at = "done",
                                        ![r].status = 200,
                                        ![r].session_token = token(nextToken)]
       \/ /\ signups' = [signups EXCEPT ![r].at = "done",
                                        ![r].status = 500]
          /\ UNCHANGED <<user_sessions, nextToken>>
    /\ UNCHANGED <<pageVars, callVars, selectedDevice, iframeContent,
                   cleanedCode, panel, boundaryState, documentVars,
                   users, now, clientVars>>

RaceNext ==
    \/ \E r \in Racers : SignupArrives(r)
    \/ \E r \in Racers : SignupLookup(r)
    \/ \E r \in Racers : SignupInsert(r)
    \/ \E r \in Racers : SignupSession(r)

\* Sign-up requests at the same time, statement by statement.
RaceSpec ==
    Init /\ [][RaceNext]_vars

\* ------------------------------------------------------------- claims
\* The message with the aiMessageId of call s (it exists once the call has
\* appended it, that is from "fetching" on).
HasAiMessage(s) ==
    pc[s] \in {"fetching", "reading", "complete", "failed"}

aiMessage(s) ==
    messages[CHOOSE i \in DOMAIN messages : messages[i].id = aiMessageId[s]]

Marked(frame) ==
    \/ Len(frame) >= 5 /\ SubSeq(frame, 1, 5) = <<"C", "H", "A", "T", ":">>
    \/ Len(frame) >= 5 /\ SubSeq(frame, 1, 5) = <<"C", "O", "D", "E", ":">>

\* The number of completion toasts shown so far.
RECURSIVE SumOver(_, _)
SumOver(f, S) ==
    IF S = {} THEN 0
    ELSE LET x == CHOOSE y \in S : TRUE IN f[x] + SumOver(f, S \ {x})

CompleteToastCount ==
    SumOver(toasts, CompleteToasts)

\* C1: a stream whose first frame starts with neither "CHAT:" nor "CODE:" is
\* a CHAT session, and after every frame the AI message shows the whole text
\* streamed so far.
C1_UnmarkedDefaultsToChat ==
    \A s \in Sessions :
        (/\ pc[s] \in {"reading", "complete"}
         /\ delivered[s] # <<>>
         /\ ~Marked(delivered[s][1]))
        => /\ responseType[s] = "CHAT"
           /\ aiMessage(s).content = Flatten(delivered[s])

\* C2: the kind of a session is decided by its first frame alone: with no
\* frame yet it is undecided, and from the first frame on it is the kind that
\* frame's marker names, whatever frames follow.
C2_KindDecidedByFirstFrame ==
    \A s \in Sessions :
        IF delivered[s] = <<>> THEN responseType[s] = "null"
        ELSE LET first == delivered[s][1]
             IN  responseType[s] =
                    IF Len(first) >= 5
                       /\ SubSeq(first, 1, 5) = <<"C", "H", "A", "T", ":">>
                    THEN "CHAT"
                    ELSE IF Len(first) >= 5
                            /\ SubSeq(first, 1, 5) = <<"C", "O", "D", "E", ":">>
                    THEN "CODE"
                    ELSE "null"

\* C2's case: a session whose first frame is "CODE:..." has received a later
\* frame that starts with "CHAT:" and is still CODE.
C2_Witness ==
    \E s \in Sessions :
        /\ Len(delivered[s]) >= 2
        /\ delivered[s][1] = F_CODE
        /\ delivered[s][2] = F_CHAT
        /\ responseType[s] = "CODE"

\* C3: when the first frame starts with a marker, the buffer is the
\* concatenation of all frames received so far without its first 5
\* characters.
C3_BufferIsFramesMinusMarker ==
    \A s \in Sessions :
        (delivered[s] # <<>> /\ Marked(delivered[s][1]))
        => LET all == Flatten(delivered[s])
           IN  streamedContent[s] = SubSeq(all, 6, Len(all))

\* C3's case: a marked first frame and a later frame have been accumulated.
C3_Witness ==
    \E s \in Sessions :
        /\ Len(delivered[s]) >= 2
        /\ Marked(delivered[s][1])
        /\ Len(streamedContent[s]) > Len(delivered[s][1]) - 5

\* C4: after a read has failed in a session that had received frames, the
\* partial text (CHAT) or partial code (CODE) is still what the AI message
\* carries.
C4_PartialKeptOnFailure ==
    \A s \in Sessions :
        (pc[s] = "failed" /\ delivered[s] # <<>>)
        => /\ responseType[s] = "CHAT"
              => aiMessage(s).content = streamedContent[s]
           /\ responseType[s] = "CODE"
              => aiMessage(s).code = streamedContent[s]

\* C5: a stream that ends with no frame is a CHAT session with an empty
\* buffer, no error toast, and an AI message that is not the pending
\* placeholder.
C5_EmptyStreamIsNoContent ==
    \A s \in Sessions :
        (pc[s] = "complete" /\ delivered[s] = <<>>)
        => /\ streamedContent[s] = <<>>
           /\ responseType[s] = "CHAT"
           /\ aiMessage(s).content # PLACEHOLDER
           /\ aiMessage(s).content # ERROR_CONTENT

\* The progress snapshot of session s carries its whole buffer.
Snapshot(s) ==
    IF responseType[s] = "CODE"
    THEN /\ activeFile.content = streamedContent[s]
         /\ streamingCode = streamedContent[s]
         /\ aiMessage(s).code = streamedContent[s]
    ELSE aiMessage(s).content = streamedContent[s]

\* C6: every step that receives a frame leaves a progress snapshot that
\* carries the whole buffer so far.
C6_SnapshotAfterEveryFrame ==
    [][\A s \in Sessions :
          delivered'[s] # delivered[s] => Snapshot(s)']_vars

\* C7: every step that receives a frame of a CODE session leaves the code
\* handed to the preview equal to the session's buffer.
C7_PreviewCodeIsBuffer ==
    [][\A s \in Sessions :
          (delivered'[s] # delivered[s] /\ responseType'[s] = "CODE")
          => previewCode' = streamedContent'[s]]_vars

\* C8: at most one call of handleSendMessage is between its guard and its
\* end at any time.
C8_OneActiveSession ==
    Cardinality({s \in Sessions : pc[s] \in Active}) <= 1

\* C8's case: a session is reading its stream while the user could still
\* submit: only the guard keeps a second call from starting.
C8_Witness ==
    \E s \in Sessions :
        /\ pc[s] = "reading"
        /\ delivered[s] # <<>>
        /\ events < MaxEvents

\* C9: the buffer only grows at its end: every step leaves the old buffer a
\* prefix of the new one.
C9_BufferAppendOnly ==
    [][\A s \in Sessions :
          IsPrefix(streamedContent[s], streamedContent'[s])]_vars

\* C9's case: a buffer that has grown twice.
C9_Witness ==
    \E s \in Sessions :
        /\ Len(delivered[s]) >= 2
        /\ Len(streamedContent[s]) > Len(delivered[s][2])

Completed(kinds) ==
    {s \in Sessions : pc[s] = "complete" /\ responseType[s] \in kinds}

C11_NoWorkAfterFailure ==
    \A s \in Sessions : pc[s] = "failed" => ~timer[s]

\* The latest call has ended (normally or by failure).
LatestEnded ==
    started > 0 /\ pc[started] \in {"complete", "failed"}

Contains(s, lit) ==
    indexOf(s, lit, 1) # 0

endsWith(s, suffix) ==
    Len(s) >= Len(suffix) /\ SubSeq(s, Len(s) - Len(suffix) + 1, Len(s)) = suffix

\* The preview has rendered the current file and framework.
Rendered ==
    panel # "unmounted"

ComponentTarget ==
    selectedFramework \in {"react", "nextjs"}

\* C13: with the React target the buffer
\* <div class="a" style="color: red; font-size: 12px">Hi</div> gives a source
\* that contains className="a" and style={{color: 'red', fontSize: '12px'}}
\* inside the synthetic component, followed by its render call.
C13_ClassAndStyleRewritten ==
    (Rendered /\ selectedFramework = "react" /\ activeFile.content = B_DIV)
        => /\ Contains(cleanedCode,
                <<"c", "l", "a", "s", "s", "N", "a", "m", "e", "=", "\"", "a",
                  "\"">>)
           /\ Contains(cleanedCode,
                <<"s", "t", "y", "l", "e", "=", "{", "{", "c", "o", "l", "o",
                  "r", ":", " ", "'", "r", "e", "d", "'", ",", " ", "f", "o",
                  "n", "t", "S", "i", "z", "e", ":", " ", "'", "1", "2", "p",
                  "x", "'", "}", "}">>)
           /\ startsWith(cleanedCode, FRAGMENT_OPEN)
           /\ endsWith(cleanedCode, FRAGMENT_CLOSE)

\* C14: with the React target the buffer const Foo = () => <div>x</div>;
\* gives the declaration unchanged, followed by render(<Foo />).
C14_DeclarationKept ==
    (Rendered /\ selectedFramework = "react" /\ activeFile.content = B_FOO)
        => cleanedCode = DECLARED_OPEN \o B_FOO \o DECLARED_RENDER
                         \o <<"F", "o", "o">> \o DECLARED_CLOSE

\* C15: with an empty buffer no source is built and nothing is executed,
\* whatever the framework: no iframe document, no source for LiveProvider,
\* and neither the iframe nor LiveProvider in the panel.
C15_EmptyBufferEmptySource ==
    (Rendered /\ activeFile.content = B_EMPTY)
        => /\ iframeContent = <<>>
           /\ cleanedCode = <<>>
           /\ panel \notin {"iframe", "live"}

\* A declaration keyword stands somewhere in the code.
HasKeyword(code) ==
    \E kw \in DeclarationKeywords :
        \E i \in 1..Len(code) : matchAtIgnoreCase(code, i, kw)

\* C16: for react and nextjs a buffer with no declaration and no '<' gives
\* the empty source, and with the empty source LiveProvider is not in the
\* panel: "No preview available" is.
C16_NoTagNoSource ==
    (Rendered /\ ComponentTarget)
        => /\ (~HasKeyword(previewCode) /\ ~Contains(previewCode, <<"<">>))
                 => cleanedCode = <<>>
           /\ cleanedCode = <<>> => panel = "noPreview"
           /\ panel = "live" => cleanedCode # <<>>

\* C16's case: plain text is shown for react as "No preview available".
C16_Witness ==
    /\ Rendered
    /\ selectedFramework = "react"
    /\ activeFile.content = B_TEXT
    /\ panel = "noPreview"

\* C17: a declaration without value or without key in a style attribute is
\* skipped: the source is the one of the same buffer without that
\* declaration, with the other declaration converted and the other attribute
\* as it is.
C17_MalformedDeclarationSkipped ==
    (Rendered /\ ComponentTarget /\ activeFile.content \in {B_MALFORMED, B_NOKEY})
        => /\ cleanedCode = cleanedCodeOf(removeSpaces(B_WELLFORMED))
           /\ Contains(cleanedCode,
                <<"s", "t", "y", "l", "e", "=", "{", "{", "f", "o", "n", "t",
                  "S", "i", "z", "e", ":", " ", "'", "1", "2", "p", "x", "'",
                  "}", "}">>)
           /\ Contains(cleanedCode, <<"i", "d", "=", "\"", "x", "\"">>)

\* C17's case: the buffer with "color:" is in the live panel.
C17_Witness ==
    /\ selectedFramework = "react"
    /\ activeFile.content = B_MALFORMED
    /\ panel = "live"

\* The source of the preview as a function of code and framework alone.
SourceOf(code, fw) ==
    IF fw \in {"react", "nextjs"} THEN cleanedCodeOf(code) ELSE <<>>

\* C18: what a render leaves as source and as iframe document is a function
\* of the code and the framework it renders, whatever was rendered before,
\* and a render of the same code and framework leaves both as they were.
C18_SourceDependsOnBufferOnly ==
    [][Rendered'
          => /\ cleanedCode' = SourceOf(previewCode', selectedFramework')
             /\ iframeContent' = iframeContentOf(previewCode', selectedFramework')
             /\ (/\ Rendered
                 /\ previewCode' = previewCode
                 /\ selectedFramework' = selectedFramework)
                   => /\ cleanedCode' = cleanedCode
                      /\ iframeContent' = iframeContent]_vars

\* C18's case: a fragment has been rendered again for the other device.
C18_Witness ==
    /\ selectedDevice = "mobile"
    /\ panel = "live"
    /\ activeFile.content = B_LABEL

\* C19: when the ErrorBoundary shows its fallback and the panel then gets
\* another source, the boundary shows its children again.
C19_FallbackLeavesWithArtifact ==
    [][(/\ panel = "live"
        /\ boundaryState.hasError
        /\ panel' = "live"
        /\ cleanedCode' # cleanedCode)
          => boundaryRender(boundaryState').shows = "children"]_vars

\* C20: when the generated component throws while it renders, the
\* ErrorBoundary shows its fallback with the message of the error (the
\* default text for an empty message), and nothing else changes: the page
\* and the panel stay as they are.
C20_RenderFaultCaught ==
    [][(boundaryState' # boundaryState /\ boundaryState'.error # UNDEFINED)
          => /\ boundaryRender(boundaryState').shows = "fallback"
             /\ boundaryRender(boundaryState').message =
                   (IF boundaryState'.error = <<>>
                    THEN <<BOUNDARY_DEFAULT_MESSAGE>>
                    ELSE boundaryState'.error)
             /\ UNCHANGED <<pageVars, callVars, panel, cleanedCode,
                            iframeContent>>]_vars

\* C20's case: the boundary holds the error "boom".
C20_Witness ==
    /\ panel = "live"
    /\ boundaryState.hasError
    /\ boundaryState.error = <<"b", "o", "o", "m">>

\* ------------------------------------------------------------- containment
\* The value is a string: a sequence of characters.
IsString(s) ==
    /\ DOMAIN s = 1..Len(s)
    /\ \A i \in DOMAIN s : s[i] \in STRING

\* The call s has left its await through a failure in this step.
FailsNow(s) ==
    /\ pc[s] \in Active
    /\ pc'[s] \notin Active \union {"complete"}

C23_HtmlBodyIsBuffer ==
    (Rendered /\ selectedFramework = "html")
        => \A body \in {jsxCommentsToHtml(activeFile.content)} :
               iframeContent = IFRAME_HEAD \o body \o IFRAME_TAIL

\* ------------------------------------------------------------- shim claims
\* The declarations of the table for the class names of a list, in order.
RECURSIVE tableDeclarations(_, _)
tableDeclarations(classes, i) ==
    IF i > Len(classes) THEN <<>>
    ELSE (IF classes[i] \in classMapKeys
          THEN classMapOwn(classes[i]) ELSE <<>>)
         \o tableDeclarations(classes, i + 1)

C40_SpacingAsNamed ==
    readyState = "complete"
    => \A i \in DOMAIN elements :
          elements[i].class = C_P4_M4
          => \E style \in StyleAttributes :
                elements[i].cssText =
                    style \o <<"padding: 1rem;", "margin: 1rem;">>

\* ------------------------------------------------------------- fences
\* The text between the two parts of the wrapper of a raw fragment.
FragmentBody(source) ==
    SubSeq(source, Len(FRAGMENT_OPEN) + 1, Len(source) - Len(FRAGMENT_CLOSE))

\* C30: the source of a raw fragment is the wrapper around a body that
\* starts at the first '<' of the code and holds no fence; for the code
\* "```jsx", "Sure:", "<b>y</b>", "```" (one per line) the body is <b>y</b>,
\* and for "```", "<i>z</i>", "```" it is <i>z</i>.
C30_FencesAndPreambleRemoved ==
    (Rendered /\ ComponentTarget /\ startsWith(cleanedCode, FRAGMENT_OPEN))
        => /\ endsWith(cleanedCode, FRAGMENT_CLOSE)
           /\ FragmentBody(cleanedCode)[1] = "<"
           /\ activeFile.content \in {B_FENCED, B_PLAINFENCE}
                => ~Contains(FragmentBody(cleanedCode), FENCE)
           /\ activeFile.content = B_FENCED
                => FragmentBody(cleanedCode)
                     = <<"<", "b", ">", "y", "<", "/", "b", ">">>
           /\ activeFile.content = B_PLAINFENCE
                => FragmentBody(cleanedCode)
                     = <<"<", "i", ">", "z", "<", "/", "i", ">">>

\* C30's case: the fenced fragment after a line of prose is in the live
\* panel.
C30_Witness ==
    /\ selectedFramework = "react"
    /\ activeFile.content = B_FENCED
    /\ panel = "live"
    /\ startsWith(cleanedCode, FRAGMENT_OPEN)

\* ------------------------------------------------------------- auth claims
\* This step is a request to the route, answered.
RequestStep(route) ==
    /\ response'.n # response.n
    /\ response'.route = route

\* The rows of user_sessions with the token.
sessionsOf(session_token) ==
    {row \in user_sessions : row.session_token = session_token}

\* Nothing is stored and no cookie is set in this step.
NothingCreated ==
    /\ UNCHANGED <<users, user_sessions, nextToken>>
    /\ response'.cookies = "none"

C26_SignOutEndsTheSession ==
    [][/\ RequestStep("signout")
            => /\ response'.status = 200
               /\ response'.cookies = "delete"
               /\ storeCookies(cookie, response') = EmptyJar
               /\ user_sessions' = user_sessions \ sessionsOf(response'.sent)
               /\ response'.sent = NoCookie => user_sessions' = user_sessions
               /\ UNCHANGED users
       /\ \A row \in user_sessions' \ user_sessions :
             \/ row.session_token = token(nextToken) /\ nextToken' > nextToken
             \/ \E old \in user_sessions :
                   old.session_token = row.session_token
       /\ (RequestStep("user") /\ sessionsOf(response'.sent) = {})
            => response'.user = NoUser]_vars

\* C26's case: sign-out has deleted the session of the first token and left
\* the session of the second.
C26_Witness ==
    /\ response.route = "signout"
    /\ response.sent = token(1)
    /\ sessionsOf(token(1)) = {}
    /\ sessionsOf(token(2)) # {}

\* C27: a sign-in that succeeds stores one new session of the user with a
\* token no session had, sets the cookie to that token, and leaves every
\* session stored before as it was.
C27_SignInAddsOneSession ==
    [][(RequestStep("signin") /\ response'.status = 200)
          => /\ response'.session_token = token(nextToken)
             /\ sessionsOf(response'.session_token) = {}
             /\ response'.cookies = "set"
             /\ cookie'.value = response'.session_token
             /\ user_sessions \subseteq user_sessions'
             /\ \E row \in user_sessions' :
                   /\ user_sessions' \ user_sessions = {row}
                   /\ row.session_token = response'.session_token
                   /\ row.expires_at > now
                   /\ response'.user # NoUser
                   /\ row.user_id = response'.user[1].id]_vars

\* C27's case: after a sign-in the user has two sessions.
C27_Witness ==
    /\ response.route = "signin"
    /\ response.status = 200
    /\ \E first \in user_sessions, second \in user_sessions :
          /\ first.session_token # second.session_token
          /\ first.user_id = second.user_id

\* C28: sign-up without email, password or username answers 400, and
\* sign-up with the email of a stored user answers 409; neither stores a
\* user or a session or sets a cookie.
C28_SignUpRejected ==
    [][RequestStep("signup")
          => LET body == response'.body
                 missing == \/ body.email = <<>>
                            \/ body.password = ""
                            \/ body.username = <<>>
             IN  /\ missing => (response'.status = 400 /\ NothingCreated)
                 /\ (~missing /\ \E row \in users : row.email = body.email)
                      => (response'.status = 409 /\ NothingCreated)]_vars

\* C28's case: sign-up with a stored email was answered 409.
C28_Witness ==
    /\ response.route = "signup"
    /\ response.status = 409
    /\ \E row \in users : row.email = response.body.email

\* C29: the app is rendered only when loading is false and a user is
\* there; while loading the page at "/" shows the spinner, and with loading
\* false and no user the browser is at /sign-in and shows nothing of the
\* app.
C29_AppOnlyForUser ==
    /\ view = "app" => (~loading /\ user # NoUser)
    /\ (location = "/" /\ loading) => view = "spinner"
    /\ (~loading /\ user = NoUser) => (location = "/sign-in" /\ view # "app")

\* C29's case: the check has found the user and the app is rendered.
C29_Witness ==
    /\ view = "app"
    /\ response.route = "user"
    /\ response.user = user

\* ------------------------------------------------------------- isolation
\* C32: while a CODE call is reading its stream and its buffer is not empty,
\* the streaming-code display is that buffer: nothing left over from an
\* earlier call (its delayed clear) changes the display of the current one.
C32_DisplayIsCurrentBuffer ==
    \A s \in Sessions :
        (/\ pc[s] = "reading"
         /\ responseType[s] = "CODE"
         /\ streamedContent[s] # <<>>)
        => streamingCode = streamedContent[s]

\* ------------------------------------------------------------- termination
\* C33: whenever no call is between its guard and its end, the generating
\* flag is clear; and every accepted call ends, by image failure, failed
\* fetch, stream end or stream failure, after which the flag is clear and
\* rendered clear, so that the next submission passes the guard.
C33_GeneratingIsCleared ==
    /\ []((\A s \in Sessions : pc[s] \notin Active) => ~isGenerating)
    /\ \A s \in Sessions :
          (pc[s] \in Active)
             ~> (pc[s] \in Ended /\ ~isGenerating /\ ~renderedIsGenerating)

\* C33's case: a call has ended by image failure, and the next submission
\* was accepted and has ended by a failure too.
C33_Witness ==
    /\ pc[1] = "imageFailed"
    /\ pc[2] = "failed"
    /\ ~isGenerating
    /\ ~renderedIsGenerating

\* ------------------------------------------------------------- chunking claim
\* The first frame of call s holds at least the 5 characters of a marker.
FirstFrameHoldsMarker(s) ==
    /\ delivered[s] # <<>>
    /\ Len(delivered[s][1]) >= MarkerLength

\* C34: two calls that have received the same text, each in frames of its
\* own and each with at least the first 5 characters in its first frame,
\* have the same kind and the same buffer, at their end as at any time
\* before.
C34_ChunkingDoesNotMatter ==
    \A s, t \in Sessions :
        (/\ FirstFrameHoldsMarker(s)
         /\ FirstFrameHoldsMarker(t)
         /\ Flatten(delivered[s]) = Flatten(delivered[t]))
        => /\ responseType[s] = responseType[t]
           /\ streamedContent[s] = streamedContent[t]

\* C34's case: two streams have ended that carried "CODE:ab", one in one
\* frame and one cut after the marker or later.
C34_Witness ==
    /\ pc[1] = "complete"
    /\ pc[2] = "complete"
    /\ delivered[1] = <<T_CODE>>
    /\ Len(delivered[2]) = 2
    /\ FirstFrameHoldsMarker(2)
    /\ Flatten(delivered[2]) = T_CODE
    /\ responseType[2] = "CODE"

\* ------------------------------------------------------------- frame effects
\* This step is one of call s: its position, its frames or its timer change.
StepOf(s) ==
    \/ pc'[s] # pc[s]
    \/ delivered'[s] # delivered[s]
    \/ timer'[s] # timer[s]

\* C35: a step of a call that is not CODE leaves the files as they are, from
\* the submission to the end of the call, failure included; a step of a CODE
\* call changes at most the content of the file that was active when the
\* call was submitted.
C35_FilesWrittenByCodeOnly ==
    [][\A s \in Sessions :
          StepOf(s)
          => IF responseType'[s] = "CODE"
             THEN /\ DOMAIN files' = DOMAIN files
                  /\ \A i \in DOMAIN files :
                        /\ files'[i].id = files[i].id
                        /\ files'[i].name = files[i].name
                        /\ files[i].id # fileId[s] => files'[i] = files[i]
             ELSE files' = files]_vars

\* C35's case: a CHAT call has received its frame and ended with the file
\* as it was, and the CODE call after it has written the file.
C35_Witness ==
    /\ pc[1] = "complete"
    /\ responseType[1] = "CHAT"
    /\ delivered[1] # <<>>
    /\ responseType[2] = "CODE"
    /\ fileId[2] = activeFileId
    /\ activeFile.content = streamedContent[2]

\* C36: the step that accepts a submission appends one user message and,
\* without image, one AI message with the id of the call right after it;
\* with an image the AI message is appended right after the user message
\* when the image is read, and none when reading fails. Every other step
\* of the call keeps the number, the ids and the roles of the messages in
\* their places and changes no message but the one with the call's id. No
\* two messages have the same id.
C36_OwnMessageOnly ==
    [][\A s \in Sessions :
          StepOf(s)
          => LET n == Len(messages)
             IN  /\ \A i, j \in DOMAIN messages' :
                       messages'[i].id = messages'[j].id => i = j
                 /\ IF pc[s] = "idle"
                    THEN /\ IsPrefix(messages, messages')
                         /\ messages'[n + 1].role = "user"
                         /\ IF pc'[s] = "readingImage"
                            THEN Len(messages') = n + 1
                            ELSE /\ Len(messages') = n + 2
                                 /\ messages'[n + 2].role = "ai"
                                 /\ messages'[n + 2].id = aiMessageId'[s]
                    ELSE IF pc[s] = "readingImage"
                    THEN IF pc'[s] = "imageFailed"
                         THEN messages' = messages
                         ELSE /\ IsPrefix(messages, messages')
                              /\ Len(messages') = n + 1
                              /\ messages[n].role = "user"
                              /\ messages'[n + 1].role = "ai"
                              /\ messages'[n + 1].id = aiMessageId'[s]
                    ELSE /\ Len(messages') = n
                         /\ \A i \in DOMAIN messages :
                               /\ messages'[i].id = messages[i].id
                               /\ messages'[i].role = messages[i].role
                               /\ messages[i].id # aiMessageId[s]
                                    => messages'[i] = messages[i]]_vars

\* C36's case: a call whose image could not be read has left its user
\* message alone, and the next call has ended as CODE with its AI message
\* last of four messages.
C36_Witness ==
    /\ pc[1] = "imageFailed"
    /\ pc[2] = "complete"
    /\ responseType[2] = "CODE"
    /\ Len(messages) = 4
    /\ messages[4].id = aiMessageId[2]
    /\ messages[4].content = GeneratedContent(framework[2])

\* ------------------------------------------------------------- server claims
\* The rows of users with the email.
usersOf(email) ==
    {row \in users : row.email = email}

\* C31: a sign-in with missing email or password is answered 400 and changes
\* nothing; a sign-in whose email is unknown, whose user is inactive or whose
\* password is wrong is answered 401 with the one text "Invalid email or
\* password", without user, and creates no session and sets no cookie.
C31_SignInRefusedAlike ==
    [][RequestStep("signin")
          => LET body == response'.body
                 missing == body.email = <<>> \/ body.password = ""
                 refused ==
                     \/ usersOf(body.email) = {}
                     \/ \E row \in usersOf(body.email) :
                           \/ ~row.is_active
                           \/ ~compare(body.password, row.password_hash)
             IN  /\ missing => (response'.status = 400 /\ NothingCreated)
                 /\ (~missing /\ refused)
                      => /\ response'.status = 401
                         /\ response'.error = SIGNIN_INVALID
                         /\ response'.user = NoUser
                         /\ NothingCreated]_vars

\* C31's case: a deactivated user has signed in with the right password and
\* was answered 401.
C31_Witness ==
    /\ response.route = "signin"
    /\ response.status = 401
    /\ \E row \in usersOf(response.body.email) :
          /\ ~row.is_active
          /\ compare(response.body.password, row.password_hash)

\* The user a response names is stored as active after the step.
AnswersActiveUser ==
    response'.user # NoUser
       => \A row \in users' :
             row.id = response'.user[1].id => row.is_active

\* C37: no route authenticates a deactivated user: neither sign-in nor
\* GET /api/auth/user answers with a user whose is_active is false, also
\* when a session of that user from before the deactivation is still
\* stored and not expired.
C37_InactiveNeverAuthenticated ==
    [][(RequestStep("signin") \/ RequestStep("user"))
          => AnswersActiveUser]_vars

\* C38: a sign-up that is not answered with success leaves users and
\* user_sessions as they were: also when creating the session fails, no
\* user record of the request stays behind.
C38_FailedSignUpStoresNothing ==
    [][(RequestStep("signup") /\ response'.status # 200)
          => UNCHANGED <<users, user_sessions>>]_vars

\* ------------------------------------------------------------- race claim
\* The sign-up requests for the email that were answered with success.
succeeded(email) ==
    {r \in Racers : /\ signups[r].at = "done"
                    /\ signups[r].status = 200
                    /\ signups[r].body.email = email}

\* C39: however the statements of sign-up requests at the same time follow
\* each other, no email has more than one user record, and of the requests
\* for one email at most one is answered with success, which carries a
\* session cookie.
C39_OneUserPerEmail ==
    \A r \in Racers :
        signups[r].at # "none"
        => LET email == signups[r].body.email
           IN  /\ Cardinality(usersOf(email)) <= 1
               /\ Cardinality(succeeded(email)) <= 1
               /\ r \in succeeded(email)
                    => signups[r].session_token # NoCookie

\* C39's case: two requests for one email with different usernames have both
\* found no existing user; one was answered with success and the other's
\* insert failed.
C39_Witness ==
    /\ signups[1].status = 200
    /\ signups[2].status = 500
    /\ signups[1].body.email = signups[2].body.email
    /\ signups[1].body.username # signups[2].body.username
    /\ signups[2].existingUser = <<>>
    /\ signups[2].newUser = <<>>

====
